---- MODULE Spec2Model ----
(***************************************************************************)
(* The statistical analysis engine of StatAnalyzer Pro                     *)
(* (src/server/services/statisticalAnalysis.ts), modelled as the calls    *)
(* the server makes into it.                                               *)
(*                                                                         *)
(* Numbers.  A JavaScript number is modelled exactly where the code        *)
(* only adds, subtracts, multiplies and divides: as a reduced fraction    *)
(* <<n, d>> with d > 0, or one of the IEEE specials NaN = <<0, 0>>,        *)
(* Inf = <<1, 0>>, NInf = <<-1, 0>> (x / 0 is NaN for x = 0 and            *)
(* +-Infinity otherwise).  A value under one square root (a standard       *)
(* deviation, a t statistic, Pearson's r) is kept in closed form as a      *)
(* surd [sgn, sq], which stands for sgn * sqrt(sq).  A p-value of the      *)
(* Student-t approximation, which holds powers of e and pi, is kept as an  *)
(* enclosure <<lo, hi>> of its square: lo <= p^2 <= hi, with lo = hi where  *)
(* the code returns a constant.  Rounding of the floating-point operations *)
(* is not modelled.                                                        *)
(***************************************************************************)
EXTENDS Integers, Sequences, FiniteSets, TLC

VARIABLES
    pc,         \* position of the call in flight: "call" before, "done" after
    headers,    \* analyzeData's argument headers: string[]
    data,       \* analyzeData's argument data: any[][]
    result,     \* what analyzeData returned or threw
    args,       \* the arguments of a direct call of one of the engine's helpers
    ret,        \* what that helper returned
    analyses,           \* MemStorage.analyses: Map<number, Analysis>
    currentAnalysisId,  \* MemStorage.currentAnalysisId
    runs                \* the processAnalysis invocations, by analysisId

vars == <<pc, headers, data, result, args, ret, analyses, currentAnalysisId, runs>>
server == <<analyses, currentAnalysisId, runs>>

\* ------------------------------------------------------------------ bounds
MaxCells == 4
MaxNumericRows == 4
MaxDetectCells == 6
MaxLen == 4
MaxOutlierLen == 5
MaxVars == 4
MaxMissingSteps == 12
MaxN == 8
RDen == 8

\* ------------------------------------------------------- exact arithmetic
NaN == <<0, 0>>
Inf == <<1, 0>>
NInf == <<-1, 0>>

Abs(i) == IF i < 0 THEN -i ELSE i
Sign(i) == IF i < 0 THEN -1 ELSE IF i = 0 THEN 0 ELSE 1
Min2(a, b) == IF a <= b THEN a ELSE b

RECURSIVE Gcd(_, _)
Gcd(a, b) == IF b = 0 THEN a ELSE Gcd(b, a % b)

\* The fraction n/d (d # 0) in lowest terms with a positive denominator.
Frac(n, d) ==
    LET g == Gcd(Abs(n), Abs(d))
        s == IF d < 0 THEN -1 ELSE 1
    IN  <<(s * n) \div g, (s * d) \div g>>

Int2R(i) == <<i, 1>>
Zero == <<0, 1>>
One == <<1, 1>>
IsFinite(a) == a[2] # 0
IsNaN(a) == a = NaN

RNeg(a) == <<-a[1], a[2]>>
RSign(a) == Sign(a[1])
RAbs(a) == <<Abs(a[1]), a[2]>>

RAdd(a, b) ==
    IF IsNaN(a) \/ IsNaN(b) THEN NaN
    ELSE IF ~IsFinite(a) THEN (IF ~IsFinite(b) /\ a # b THEN NaN ELSE a)
    ELSE IF ~IsFinite(b) THEN b
    ELSE LET g == Gcd(a[2], b[2])
         IN  Frac(a[1] * (b[2] \div g) + b[1] * (a[2] \div g), (a[2] \div g) * b[2])

RSub(a, b) == RAdd(a, RNeg(b))

RMul(a, b) ==
    IF IsNaN(a) \/ IsNaN(b) THEN NaN
    ELSE IF ~IsFinite(a) \/ ~IsFinite(b)
         THEN <<RSign(a) * RSign(b), 0>>
    ELSE LET g1 == Gcd(Abs(a[1]), b[2])
             g2 == Gcd(Abs(b[1]), a[2])
         IN  <<(a[1] \div g1) * (b[1] \div g2), (a[2] \div g2) * (b[2] \div g1)>>

\* IEEE division: 0/0 and Infinity/Infinity are NaN, x/0 is +-Infinity,
\* x/Infinity is 0 (the sign of a zero is not modelled: a zero divisor
\* counts as +0).
RDiv(a, b) ==
    IF IsNaN(a) \/ IsNaN(b) THEN NaN
    ELSE IF ~IsFinite(b) THEN (IF IsFinite(a) THEN Zero ELSE NaN)
    ELSE IF ~IsFinite(a) THEN <<RSign(a) * (IF b[1] < 0 THEN -1 ELSE 1), 0>>
    ELSE IF b[1] = 0 THEN <<Sign(a[1]), 0>>
    ELSE RMul(a, Frac(b[2], b[1]))

\* a < b, a > b, a <= b as JavaScript compares: false when either side is NaN.
RLt(a, b) ==
    IF IsNaN(a) \/ IsNaN(b) THEN FALSE
    ELSE IF a = b THEN FALSE
    ELSE IF a = NInf \/ b = Inf THEN TRUE
    ELSE IF a = Inf \/ b = NInf THEN FALSE
    ELSE LET g == Gcd(a[2], b[2])
         IN  a[1] * (b[2] \div g) < b[1] * (a[2] \div g)
RGt(a, b) == RLt(b, a)
RLe(a, b) == ~IsNaN(a) /\ ~IsNaN(b) /\ ~RLt(b, a)
RGe(a, b) == RLe(b, a)

RECURSIVE RPow(_, _)
RPow(a, k) == IF k = 0 THEN One ELSE RMul(a, RPow(a, k - 1))

RECURSIVE SumSeq(_)
SumSeq(s) == IF s = <<>> THEN Zero ELSE RAdd(SumSeq(SubSeq(s, 1, Len(s) - 1)), s[Len(s)])

\* ------------------------------------------------------------ raw cells
\* A raw cell is null, undefined (also what row[index] gives past the end of
\* a short row) or a string, kept as its sequence of characters.
Null == [t |-> "null", s |-> <<>>]
Undefined == [t |-> "undefined", s |-> <<>>]
Str(chars) == [t |-> "string", s |-> chars]

DigitChars == <<"0", "1", "2", "3", "4", "5", "6", "7", "8", "9">>
IsDigit(c) == \E k \in 1..10 : DigitChars[k] = c
DigitVal(c) == (CHOOSE k \in 1..10 : DigitChars[k] = c) - 1

\* The longest prefix of s, from position i on, made of digits.
RECURSIVE DigitRun(_, _)
DigitRun(s, i) ==
    IF i <= Len(s) /\ IsDigit(s[i]) THEN <<s[i]>> \o DigitRun(s, i + 1) ELSE <<>>

RECURSIVE DigitsValue(_)
DigitsValue(ds) ==
    IF ds = <<>> THEN 0
    ELSE 10 * DigitsValue(SubSeq(ds, 1, Len(ds) - 1)) + DigitVal(ds[Len(ds)])

\* parseFloat(String(value)) for a string cell: an optional sign, then the
\* longest run of digits; what follows is ignored; NaN when there is no
\* digit.  (Fractions, exponents and "Infinity" are outside the alphabet.)
ParseFloat(cell) ==
    LET s == cell.s
        signed == Len(s) >= 1 /\ s[1] \in {"-", "+"}
        ds == DigitRun(s, IF signed THEN 2 ELSE 1)
    IN  IF ds = <<>> THEN NaN
        ELSE Int2R((IF signed /\ s[1] = "-" THEN -1 ELSE 1) * DigitsValue(ds))

\* row[index] with a 0-based index: undefined past the end of the row.
CellAt(row, index) == IF index + 1 <= Len(row) THEN row[index + 1] ELSE Undefined

\* ------------------------------------------------------ detectVariables
IsPresent(value) == value # Null /\ value # Undefined /\ value # Str(<<>>)

\* detectVariables with "at least 80%": numericalData.length >= 0.8 * columnData.length
DetectVariableAtLeast80(d, header, index) ==
    LET columnData == SelectSeq([r \in 1..Len(d) |-> CellAt(d[r], index)], IsPresent)
        missingCount == Len(d) - Len(columnData)
        numericalData == SelectSeq([i \in 1..Len(columnData) |-> ParseFloat(columnData[i])],
                                   LAMBDA v : ~IsNaN(v))
        isNumerical == 10 * Len(numericalData) >= 8 * Len(columnData)
    IN  [name |-> header,
         type |-> IF isNumerical THEN "numerical" ELSE "categorical",
         values |-> IF isNumerical THEN numericalData ELSE columnData,
         missingCount |-> missingCount]

\* detectVariables with missingCount counted as the cells that are not missing
\* (data.length - columnData.length turned into columnData.length)
DetectVariableCountsPresent(d, header, index) ==
    LET columnData == SelectSeq([r \in 1..Len(d) |-> CellAt(d[r], index)], IsPresent)
        missingCount == Len(columnData)
        numericalData == SelectSeq([i \in 1..Len(columnData) |-> ParseFloat(columnData[i])],
                                   LAMBDA v : ~IsNaN(v))
        isNumerical == 10 * Len(numericalData) > 8 * Len(columnData)
    IN  [name |-> header,
         type |-> IF isNumerical THEN "numerical" ELSE "categorical",
         values |-> IF isNumerical THEN numericalData ELSE columnData,
         missingCount |-> missingCount]

DetectVariable(d, header, index) ==
    LET columnData == SelectSeq([r \in 1..Len(d) |-> CellAt(d[r], index)], IsPresent)
        missingCount == Len(d) - Len(columnData)
        numericalData == SelectSeq([i \in 1..Len(columnData) |-> ParseFloat(columnData[i])],
                                   LAMBDA v : ~IsNaN(v))
        \* numericalData.length > columnData.length * 0.8; the product of an
        \* integer with the double 0.8 rounds to the exact value whenever
        \* that is an integer, so the comparison is the exact one.
        isNumerical == 10 * Len(numericalData) > 8 * Len(columnData)
    IN  [name |-> header,
         type |-> IF isNumerical THEN "numerical" ELSE "categorical",
         values |-> IF isNumerical THEN numericalData ELSE columnData,
         missingCount |-> missingCount]

DetectVariables(d, h) == [i \in 1..Len(h) |-> DetectVariable(d, h[i], i - 1)]

\* ------------------------------------------------- surds (closed forms)
\* [sgn, sq] stands for sgn * sqrt(sq); sq is a fraction >= 0, or NaN (the
\* value is NaN) or Inf (the value is +-Infinity).
Surd(sgn, sq) ==
    IF IsNaN(sq) THEN [sgn |-> 0, sq |-> NaN]
    ELSE IF sq = Zero \/ sgn = 0 THEN [sgn |-> 0, sq |-> Zero]
    ELSE [sgn |-> sgn, sq |-> sq]

SNaN == Surd(0, NaN)
SIsNaN(a) == IsNaN(a.sq)
SIsFinite(a) == IsFinite(a.sq)
\* a fraction (or special) as a surd
SOfR(q) == IF IsNaN(q) THEN SNaN ELSE Surd(RSign(q), RMul(q, q))
SZero == SOfR(Zero)
SOne == SOfR(One)
\* Math.sqrt of a fraction: NaN for a negative argument
SSqrt(q) == IF IsNaN(q) \/ RSign(q) < 0 THEN SNaN ELSE Surd(1, q)
SAbs(a) == [a EXCEPT !.sgn = Abs(a.sgn)]
SMul(a, b) ==
    IF SIsNaN(a) \/ SIsNaN(b) THEN SNaN
    ELSE Surd(a.sgn * b.sgn, RMul(a.sq, b.sq))
\* IEEE division (a zero divisor counts as +0)
SDiv(a, b) ==
    IF SIsNaN(a) \/ SIsNaN(b) THEN SNaN
    ELSE IF b.sgn = 0 THEN Surd(a.sgn, RDiv(a.sq, Zero))
    ELSE IF ~SIsFinite(b) THEN (IF SIsFinite(a) THEN SZero ELSE SNaN)
    ELSE Surd(a.sgn * b.sgn, RDiv(a.sq, b.sq))
\* a * a
SSquare(a) == a.sq

\* ------------------------------------------ enclosures of positive reals
\* <<lo, hi>> with fractions 0 <= lo <= hi whose numerators and
\* denominators stay below 2^15, so that no product leaves TLC's integers;
\* a result that needs more digits is rounded outwards.
RoundDown(q) ==
    LET m == IF q[1] > q[2] THEN q[1] ELSE q[2]
        k == m \div 32768 + 1
    IN  IF m < 32768 THEN q ELSE Frac(q[1] \div k, (q[2] + k - 1) \div k)

RoundUp(q) ==
    LET m == IF q[1] > q[2] THEN q[1] ELSE q[2]
        k == m \div 32768 + 1
    IN  IF m < 32768 THEN q
        ELSE IF q[2] \div k = 0 THEN Inf
        ELSE Frac((q[1] + k - 1) \div k, q[2] \div k)

Exactly(q) == <<q, q>>
IMul(I, J) == <<RoundDown(RMul(I[1], J[1])), RoundUp(RMul(I[2], J[2]))>>
IDiv(I, J) == <<RoundDown(RDiv(I[1], J[2])), RoundUp(RDiv(I[2], J[1]))>>

RECURSIVE IPow(_, _)
IPow(I, k) == IF k = 0 THEN Exactly(One) ELSE IMul(I, IPow(I, k - 1))

\* Math.E and Math.PI
MathE == <<<<27182, 10000>>, <<27183, 10000>>>>
MathPI == <<<<31415, 10000>>, <<31416, 10000>>>>

\* ---------------------------------------- simple-statistics (the library)
\* mean, variance and standardDeviation of a non-empty array (each throws on
\* an empty one; the engine never passes one).  variance divides by n.
Mean(x) == RDiv(SumSeq(x), Int2R(Len(x)))

SumNthPowerDeviations(x, k) ==
    LET m == Mean(x) IN SumSeq([i \in 1..Len(x) |-> RPow(RSub(x[i], m), k)])

Variance(x) == RDiv(SumNthPowerDeviations(x, 2), Int2R(Len(x)))

StandardDeviation(x) == IF Len(x) = 1 THEN SZero ELSE SSqrt(Variance(x))

RECURSIVE MinSeq(_)
MinSeq(x) ==
    IF Len(x) = 1 THEN x[1]
    ELSE LET m == MinSeq(SubSeq(x, 1, Len(x) - 1)) IN IF RLt(x[Len(x)], m) THEN x[Len(x)] ELSE m

RECURSIVE MaxSeq(_)
MaxSeq(x) ==
    IF Len(x) = 1 THEN x[1]
    ELSE LET m == MaxSeq(SubSeq(x, 1, Len(x) - 1)) IN IF RGt(x[Len(x)], m) THEN x[Len(x)] ELSE m

\* x sorted ascending (a copy; x itself is untouched)
RECURSIVE SortAscending(_)
SortAscending(x) ==
    IF Len(x) <= 1 THEN x
    ELSE LET head == SortAscending(SubSeq(x, 1, Len(x) - 1))
             last == x[Len(x)]
             below == SelectSeq(head, LAMBDA v : RLe(v, last))
             above == SelectSeq(head, LAMBDA v : RGt(v, last))
         IN  below \o <<last>> \o above

\* quantile(x, p) for one p in [0, 1] and a non-empty x: with idx = x.length * p
\* and the sorted copy indexed from 0, the last element for p = 1, the first
\* for p = 0, sorted[ceil(idx) - 1] when idx is not an integer, the mean of
\* sorted[idx - 1] and sorted[idx] when it is and the length is even, and
\* sorted[idx] otherwise.
Quantile(x, p) ==
    LET sorted == SortAscending(x)
        idx == RMul(Int2R(Len(x)), p)
    IN  IF p = One THEN sorted[Len(x)]
        ELSE IF p = Zero THEN sorted[1]
        ELSE IF idx[2] # 1 THEN sorted[(idx[1] + idx[2] - 1) \div idx[2]]
        ELSE IF Len(x) % 2 = 0 THEN RDiv(RAdd(sorted[idx[1]], sorted[idx[1] + 1]), Int2R(2))
        ELSE sorted[idx[1] + 1]

\* ------------------------------------------- calculateDescriptiveStats
\* The distinct String(value) keys of a categorical column, first seen first.
RECURSIVE FirstSeenKeys(_)
FirstSeenKeys(values) ==
    IF values = <<>> THEN <<>>
    ELSE LET before == FirstSeenKeys(SubSeq(values, 1, Len(values) - 1))
             key == values[Len(values)].s
         IN  IF \E i \in 1..Len(before) : before[i] = key THEN before
             ELSE Append(before, key)

\* A key that JavaScript treats as an array index: such keys of an object
\* are enumerated first, in ascending numeric order, before the other keys
\* in insertion order.
IsIndexKey(key) ==
    /\ key # <<>>
    /\ \A i \in 1..Len(key) : IsDigit(key[i])
    /\ (Len(key) = 1 \/ key[1] # "0")

RECURSIVE SortIndexKeys(_)
SortIndexKeys(keys) ==
    IF keys = <<>> THEN <<>>
    ELSE LET m == CHOOSE i \in 1..Len(keys) :
                      \A j \in 1..Len(keys) : DigitsValue(keys[i]) <= DigitsValue(keys[j])
         IN  <<keys[m]>> \o SortIndexKeys(SubSeq(keys, 1, m - 1) \o SubSeq(keys, m + 1, Len(keys)))

CountOf(values, key) == Cardinality({i \in 1..Len(values) : values[i].s = key})

\* Object.entries(frequencies)
FrequencyEntries(values) ==
    LET keys == FirstSeenKeys(values)
        ordered == SortIndexKeys(SelectSeq(keys, IsIndexKey))
                       \o SelectSeq(keys, LAMBDA k : ~IsIndexKey(k))
    IN  [i \in 1..Len(ordered) |-> [key |-> ordered[i], count |-> CountOf(values, ordered[i])]]

\* entries.reduce((a, b) => frequencies[a[0]] > frequencies[b[0]] ? a : b)
RECURSIVE ReduceMode(_)
ReduceMode(entries) ==
    IF Len(entries) = 1 THEN entries[1]
    ELSE LET a == ReduceMode(SubSeq(entries, 1, Len(entries) - 1))
             b == entries[Len(entries)]
         IN  IF a.count > b.count THEN a ELSE b

\* reduce of an empty array without an initial value throws a TypeError:
\* the categorical branch is taken by every variable that has no value.
DescriptiveStatsThrows(variable) ==
    ~(variable.type = "numerical" /\ Len(variable.values) > 0) /\ variable.values = <<>>

CalculateDescriptiveStats(variable) ==
    IF variable.type = "numerical" /\ Len(variable.values) > 0
    THEN [variable |-> variable.name, type |-> variable.type,
          count |-> Len(variable.values), missing |-> variable.missingCount,
          mean |-> Mean(variable.values),
          standardDeviation |-> StandardDeviation(variable.values),
          variance |-> Variance(variable.values),
          min |-> MinSeq(variable.values), max |-> MaxSeq(variable.values)]
    ELSE LET entries == FrequencyEntries(variable.values)
         IN  [variable |-> variable.name, type |-> variable.type,
              count |-> Len(variable.values), missing |-> variable.missingCount,
              mode |-> ReduceMode(entries).key, frequencies |-> entries]

\* ------------------------------------------- the Student-t approximation
\* Every operator of this section returns an enclosure of the SQUARE of
\* what the method of the same name returns; the arguments a, b, x and df
\* are exact fractions, a and b multiples of 1/2.

\* gamma(x), Stirling's formula:
\*   x < 1: gamma(x + 1) / x;  else sqrt(2 pi / x) * (x / e)^x.
RECURSIVE Gamma(_)
Gamma(x) ==
    IF RLt(x, One) THEN IDiv(Gamma(RAdd(x, One)), Exactly(RMul(x, x)))
    ELSE IMul(IMul(Exactly(RDiv(Int2R(2), x)), MathPI),
              IPow(IDiv(Exactly(x), MathE), RMul(Int2R(2), x)[1]))

Beta(a, b) == IDiv(IMul(Gamma(a), Gamma(b)), Gamma(RAdd(a, b)))

\* Math.pow(x, a)
Pow(x, a) == IPow(Exactly(x), RMul(Int2R(2), a)[1])

IncompleteBeta(a, b, x) ==
    IF RGe(x, One) THEN Exactly(One)
    ELSE IF RLe(x, Zero) THEN Exactly(Zero)
    ELSE IF IsNaN(x) THEN Exactly(NaN)
    ELSE IDiv(IMul(Pow(x, a), Pow(RSub(One, x), b)),
              IMul(Exactly(RMul(a, a)), Beta(a, b)))

\* cumulativeStudentT(t, df) = 1 - 0.5 * incompleteBeta(df / 2, 0.5, x) with
\* x = df / (df + t * t).  Both callers compute 2 * (1 - cumulativeStudentT),
\* which is that incompleteBeta term again; the model returns the term, and
\* the callers take it as their p-value.
StudentTTail(t, df) ==
    LET x == RDiv(Int2R(df), RAdd(Int2R(df), SSquare(t)))
    IN  IncompleteBeta(RDiv(Int2R(df), Int2R(2)), <<1, 2>>, x)

\* p-values: is the enclosure NaN; p <= q and p < q for a fraction q >= 0, as
\* JavaScript compares (false for NaN); and whether the enclosure is tight
\* enough to decide the comparison.
PIsNaN(p) == IsNaN(p[1])
PDecides(p, q) == PIsNaN(p) \/ RLe(p[2], RMul(q, q)) \/ RGt(p[1], RMul(q, q))
PLe(p, q) == ~PIsNaN(p) /\ RLe(p[2], RMul(q, q))
PZero == Exactly(Zero)
POne == Exactly(One)

\* ------------------------------------------------------------ correlation
Slice(x, n) == SubSeq(x, 1, Min2(n, Len(x)))

\* calculatePearsonCorrelation without the test denominator === 0
CalculatePearsonCorrelationUnguarded(x, y) ==
    LET n == Min2(Len(x), Len(y)) IN
    IF n < 2 THEN SZero
    ELSE LET meanX == Mean(Slice(x, n))
             meanY == Mean(Slice(y, n))
             dx(i) == RSub(x[i], meanX)
             dy(i) == RSub(y[i], meanY)
             numerator == SumSeq([i \in 1..n |-> RMul(dx(i), dy(i))])
             sumXSquared == SumSeq([i \in 1..n |-> RMul(dx(i), dx(i))])
             sumYSquared == SumSeq([i \in 1..n |-> RMul(dy(i), dy(i))])
             denominator == SSqrt(RMul(sumXSquared, sumYSquared))
         IN  SDiv(SOfR(numerator), denominator)

CalculatePearsonCorrelation(x, y) ==
    LET n == Min2(Len(x), Len(y)) IN
    IF n < 2 THEN SZero
    ELSE LET meanX == Mean(Slice(x, n))
             meanY == Mean(Slice(y, n))
             dx(i) == RSub(x[i], meanX)
             dy(i) == RSub(y[i], meanY)
             numerator == SumSeq([i \in 1..n |-> RMul(dx(i), dy(i))])
             sumXSquared == SumSeq([i \in 1..n |-> RMul(dx(i), dx(i))])
             sumYSquared == SumSeq([i \in 1..n |-> RMul(dy(i), dy(i))])
             denominator == SSqrt(RMul(sumXSquared, sumYSquared))
         IN  IF denominator = SZero THEN SZero ELSE SDiv(SOfR(numerator), denominator)

\* calculateCorrelationPValue with the early return at n < 2
CalculateCorrelationPValueFromTwo(r, n) ==
    IF n < 2 THEN POne
    ELSE LET t == SMul(r, SSqrt(RDiv(Int2R(n - 2), RSub(One, SSquare(r)))))
         IN  StudentTTail(SAbs(t), n - 2)

CalculateCorrelationPValue(r, n) ==
    IF n < 3 THEN POne
    ELSE LET t == SMul(r, SSqrt(RDiv(Int2R(n - 2), RSub(One, SSquare(r)))))
         IN  StudentTTail(SAbs(t), n - 2)

\* performCorrelationAnalysis without the branch i === j
PerformCorrelationAnalysisNoDiagonal(numericalVars) ==
    LET n == Len(numericalVars)
        corr(i, j) == CalculatePearsonCorrelation(numericalVars[i].values, numericalVars[j].values)
    IN  [variables |-> [i \in 1..n |-> numericalVars[i].name],
         correlationMatrix |-> [i \in 1..n |-> [j \in 1..n |-> corr(i, j)]],
         pValues |->
            [i \in 1..n |-> [j \in 1..n |->
                CalculateCorrelationPValue(corr(i, j),
                    Min2(Len(numericalVars[i].values), Len(numericalVars[j].values)))]]]

\* performCorrelationAnalysis with the p-value taken at the length of the
\* row's variable instead of the shorter of the two
PerformCorrelationAnalysisRowLength(numericalVars) ==
    LET n == Len(numericalVars)
        corr(i, j) == CalculatePearsonCorrelation(numericalVars[i].values, numericalVars[j].values)
    IN  [variables |-> [i \in 1..n |-> numericalVars[i].name],
         correlationMatrix |->
            [i \in 1..n |-> [j \in 1..n |-> IF i = j THEN SOne ELSE corr(i, j)]],
         pValues |->
            [i \in 1..n |-> [j \in 1..n |->
                IF i = j THEN PZero
                ELSE CalculateCorrelationPValue(corr(i, j), Len(numericalVars[i].values))]]]

PerformCorrelationAnalysis(numericalVars) ==
    LET n == Len(numericalVars)
        corr(i, j) == CalculatePearsonCorrelation(numericalVars[i].values, numericalVars[j].values)
    IN  [variables |-> [i \in 1..n |-> numericalVars[i].name],
         correlationMatrix |->
            [i \in 1..n |-> [j \in 1..n |-> IF i = j THEN SOne ELSE corr(i, j)]],
         pValues |->
            [i \in 1..n |-> [j \in 1..n |->
                IF i = j THEN PZero
                ELSE CalculateCorrelationPValue(corr(i, j),
                         Min2(Len(numericalVars[i].values), Len(numericalVars[j].values)))]]]

\* ------------------------------------------------------ hypothesis tests
\* shapiroWilkTest as first defined in the class.  The class defines the
\* method a second time further down, and the later definition replaces
\* this one: no call reaches it.
ShapiroWilkTestShadowed(values) ==
    LET numerator == Zero
        denominator == SumNthPowerDeviations(values, 2)
        q == RDiv(numerator, denominator)
        W == IF IsNaN(q) \/ q = Zero THEN Zero ELSE q       \* numerator / denominator || 0
        pValue == IF RGt(W, <<9, 10>>) THEN <<1, 10>> ELSE <<1, 100>>
    IN  [testName |-> "Shapiro-Wilk Normality Test",
         statistic |-> W,
         pValue |-> pValue,
         interpretation |-> IF RGt(pValue, <<1, 20>>)
                            THEN "Data appears to be normally distributed"
                            ELSE "Data may not be normally distributed",
         significant |-> RLe(pValue, <<1, 20>>)]

\* shapiroWilkTest as defined last: the method every call reaches.
ShapiroWilkTest(values) ==
    IF Len(values) < 3 THEN [statistic |-> One, pValue |-> One]
    ELSE LET mean_val == Mean(values)         \* of the sorted copy: the same
             variance_val == Variance(values)
             w == RSub(One, RDiv(variance_val,
                                 RAdd(RMul(mean_val, mean_val), variance_val)))
             pValue == IF RGt(w, <<19, 20>>) THEN <<4, 5>>
                       ELSE IF RGt(w, <<9, 10>>) THEN <<3, 10>> ELSE <<1, 100>>
         IN  [statistic |-> w, pValue |-> pValue]

OneSampleTTest(values, populationMean) ==
    LET n == Len(values)
        sampleMean == Mean(values)
        sampleStd == StandardDeviation(values)
        standardError == SDiv(sampleStd, SSqrt(Int2R(n)))
        tStatistic == SDiv(SOfR(RSub(sampleMean, populationMean)), standardError)
        degreesOfFreedom == n - 1
        pValue == StudentTTail(SAbs(tStatistic), degreesOfFreedom)
    IN  [testName |-> "One-Sample T-Test",
         statistic |-> tStatistic,
         pValue |-> pValue,
         degreesOfFreedom |-> degreesOfFreedom,
         interpretation |-> IF PLe(pValue, <<1, 20>>)
                            THEN "Sample mean is significantly different from population mean"
                            ELSE "No significant difference from population mean",
         significant |-> PLe(pValue, <<1, 20>>)]

IsNumerical(v) == v.type = "numerical"

\* performHypothesisTests with the normality test from 3 values on
PerformHypothesisTestsFromThree(variables) ==
    LET numericalVars == SelectSeq(variables, IsNumerical)
        normality == SelectSeq(numericalVars, LAMBDA v : Len(v.values) >= 3)
        location == SelectSeq(numericalVars, LAMBDA v : Len(v.values) > 1)
    IN  [i \in 1..Len(normality) |-> ShapiroWilkTest(normality[i].values)]
            \o [i \in 1..Len(location) |-> OneSampleTTest(location[i].values, Zero)]

PerformHypothesisTests(variables) ==
    LET numericalVars == SelectSeq(variables, IsNumerical)
        normality == SelectSeq(numericalVars, LAMBDA v : Len(v.values) > 3)
        location == SelectSeq(numericalVars, LAMBDA v : Len(v.values) > 1)
    IN  [i \in 1..Len(normality) |-> ShapiroWilkTest(normality[i].values)]
            \o [i \in 1..Len(location) |-> OneSampleTTest(location[i].values, Zero)]

\* ---------------------------------------------------------- advancedTests
\* jarqueBeraTest: skewness = sum(((x - mean) / std)^3) / n and
\* kurtosis = sum(((x - mean) / std)^4) / n - 3.  With std = 0 every term
\* is 0 / 0 = NaN.  Otherwise the statistic
\*   jb = (n / 6) * (skewness^2 + kurtosis^2 / 4)
\* is a fraction: skewness^2 = S3^2 / (n^2 * variance^3) and
\* kurtosis = S4 / (n * variance^2) - 3, Sk the sum of k-th powers of the
\* deviations.
JarqueBeraTest(values) ==
    LET n == Int2R(Len(values))
        v == Variance(values)
        std_val == StandardDeviation(values)
        skewnessSq == RDiv(RPow(SumNthPowerDeviations(values, 3), 2),
                           RMul(RMul(n, n), RPow(v, 3)))
        kurtosis == RSub(RDiv(SumNthPowerDeviations(values, 4), RMul(n, RPow(v, 2))),
                         Int2R(3))
        jb == IF std_val = SZero THEN NaN
              ELSE RMul(RDiv(n, Int2R(6)),
                        RAdd(skewnessSq, RDiv(RMul(kurtosis, kurtosis), Int2R(4))))
    IN  [statistic |-> jb,
         pValue |-> IF RGt(jb, <<599, 100>>) THEN <<1, 100>> ELSE <<4, 5>>]

PerformAdvancedTests(variables) ==
    LET numericalVars == SelectSeq(variables, IsNumerical)
    IN  [normalityTests |->
            [i \in 1..Len(numericalVars) |->
                [variable |-> numericalVars[i].name,
                 shapiroWilk |-> ShapiroWilkTest(numericalVars[i].values).statistic,
                 jarqueBera |-> JarqueBeraTest(numericalVars[i].values).statistic,
                 pValue |-> ShapiroWilkTest(numericalVars[i].values).pValue]]]

\* ---------------------------------------------------------- detectOutliers
\* detectOutliers with the fences themselves counted as outside (<=, >=)
OutlierPositionsInclusive(values, lowerBound, upperBound) ==
    LET indices == [i \in 1..Len(values) |-> i - 1]
    IN  SelectSeq(indices, LAMBDA i : RLe(values[i + 1], lowerBound)
                                        \/ RGe(values[i + 1], upperBound))

\* The 0-based positions of the values outside the fences, ascending.
OutlierPositions(values, lowerBound, upperBound) ==
    LET indices == [i \in 1..Len(values) |-> i - 1]
    IN  SelectSeq(indices, LAMBDA i : RLt(values[i + 1], lowerBound)
                                        \/ RGt(values[i + 1], upperBound))

OutliersOf(variable) ==
    LET values == variable.values
        q1 == Quantile(values, <<1, 4>>)
        q3 == Quantile(values, <<3, 4>>)
        iqr == RSub(q3, q1)
        lowerBound == RSub(q1, RMul(<<3, 2>>, iqr))
        upperBound == RAdd(q3, RMul(<<3, 2>>, iqr))
        outlierIndices == OutlierPositions(values, lowerBound, upperBound)
    IN  [variable |-> variable.name,
         outlierIndices |-> outlierIndices,
         outlierValues |-> [k \in 1..Len(outlierIndices) |-> values[outlierIndices[k] + 1]]]

DetectOutliers(variables) ==
    LET numericalVars == SelectSeq(variables, IsNumerical)
        results == [i \in 1..Len(numericalVars) |-> OutliersOf(numericalVars[i])]
    IN  SelectSeq(results, LAMBDA r : Len(r.outlierIndices) > 0)

\* --------------------------------------------- performRegressionAnalysis
\* v => v !== null && !isNaN(v) on an array of numbers
NotNullNotNaN(values) == SelectSeq(values, LAMBDA v : ~IsNaN(v))

\* a + b for a fraction a and a surd b, kept as the pair
Shifted(a, b) == [base |-> a, shift |-> b]

PerformLinearRegression(x, y) ==
    LET n == Min2(Len(x), Len(y))
        xSliced == Slice(x, n)
        ySliced == Slice(y, n)
        xMean == Mean(xSliced)
        yMean == Mean(ySliced)
        slope == RDiv(SumSeq([i \in 1..n |-> RMul(RSub(xSliced[i], xMean), RSub(ySliced[i], yMean))]),
                      SumSeq([i \in 1..n |-> RPow(RSub(xSliced[i], xMean), 2)]))
        intercept == RSub(yMean, RMul(slope, xMean))
        predictions == [i \in 1..n |-> RAdd(RMul(slope, xSliced[i]), intercept)]
        residuals == [i \in 1..n |-> RSub(ySliced[i], predictions[i])]
        totalSumSquares == SumSeq([i \in 1..n |-> RPow(RSub(ySliced[i], yMean), 2)])
        residualSumSquares == SumSeq([i \in 1..n |-> RPow(residuals[i], 2)])
        rSquared == RSub(One, RDiv(residualSumSquares, totalSumSquares))
        adjustedRSquared ==
            RSub(One, RDiv(RMul(RSub(One, rSquared), Int2R(n - 1)), Int2R(n - 2)))
        margin == SMul(SOfR(<<49, 25>>), StandardDeviation(residuals))
    IN  [type |-> "linear",
         coefficients |-> <<intercept, slope>>,
         rSquared |-> rSquared,
         adjustedRSquared |-> adjustedRSquared,
         fStatistic |-> RMul(RDiv(rSquared, RSub(One, rSquared)), Int2R(n - 2)),
         pValue |-> IF RGt(rSquared, <<1, 10>>) THEN <<1, 20>> ELSE <<1, 5>>,
         residuals |-> residuals,
         predictions |-> predictions,
         confidenceIntervals |->
            [lower |-> [i \in 1..n |-> Shifted(predictions[i], SMul(SOfR(Int2R(-1)), margin))],
             upper |-> [i \in 1..n |-> Shifted(predictions[i], margin)]]]

\* The pairs (i, j), i < j, of 1..k in the order of the two nested loops.
RECURSIVE PairsInLoopOrder(_, _, _)
PairsInLoopOrder(i, j, k) ==
    IF i >= k THEN <<>>
    ELSE IF j > k THEN PairsInLoopOrder(i + 1, i + 2, k)
    ELSE <<<<i, j>>>> \o PairsInLoopOrder(i, j + 1, k)

\* performRegressionAnalysis with pairs of 10 values fitted as well (>= 10)
PerformRegressionAnalysisFromTen(variables) ==
    LET numericalVars == SelectSeq(variables, IsNumerical)
        x(p) == NotNullNotNaN(numericalVars[p[1]].values)
        y(p) == NotNullNotNaN(numericalVars[p[2]].values)
        fitted == SelectSeq(PairsInLoopOrder(1, 2, Len(numericalVars)),
                            LAMBDA p : Len(x(p)) >= 10 /\ Len(y(p)) >= 10)
    IN  IF Len(numericalVars) < 2 THEN <<>>
        ELSE [k \in 1..Len(fitted) |-> PerformLinearRegression(x(fitted[k]), y(fitted[k]))]

PerformRegressionAnalysis(variables) ==
    LET numericalVars == SelectSeq(variables, IsNumerical)
        x(p) == NotNullNotNaN(numericalVars[p[1]].values)
        y(p) == NotNullNotNaN(numericalVars[p[2]].values)
        fitted == SelectSeq(PairsInLoopOrder(1, 2, Len(numericalVars)),
                            LAMBDA p : Len(x(p)) > 10 /\ Len(y(p)) > 10)
    IN  IF Len(numericalVars) < 2 THEN <<>>
        ELSE [k \in 1..Len(fitted) |-> PerformLinearRegression(x(fitted[k]), y(fitted[k]))]

\* --------------------------------------------- performTimeSeriesAnalysis
\* A name is its sequence of characters.  String.prototype.toLowerCase on
\* the letters A-Z; every other character is kept.
UpperCaseLetters ==
    <<"A", "B", "C", "D", "E", "F", "G", "H", "I", "J", "K", "L", "M",
      "N", "O", "P", "Q", "R", "S", "T", "U", "V", "W", "X", "Y", "Z">>
LowerCaseLetters ==
    <<"a", "b", "c", "d", "e", "f", "g", "h", "i", "j", "k", "l", "m",
      "n", "o", "p", "q", "r", "s", "t", "u", "v", "w", "x", "y", "z">>
ToLowerCase(name) ==
    [i \in 1..Len(name) |->
        IF \E k \in 1..26 : UpperCaseLetters[k] = name[i]
        THEN LowerCaseLetters[CHOOSE k \in 1..26 : UpperCaseLetters[k] = name[i]]
        ELSE name[i]]
\* String.prototype.includes
Includes(name, part) ==
    \E i \in 1..(Len(name) - Len(part) + 1) : SubSeq(name, i, i + Len(part) - 1) = part

IsTimeName(name) ==
    \/ Includes(ToLowerCase(name), <<"t", "i", "m", "e">>)
    \/ Includes(ToLowerCase(name), <<"d", "a", "t", "e">>)

DetectTrend(values) ==
    LET half == Len(values) \div 2
        firstMean == Mean(SubSeq(values, 1, half))
        secondMean == Mean(SubSeq(values, half + 1, Len(values)))
        diff == RDiv(RSub(secondMean, firstMean), firstMean)
    IN  IF RGt(diff, <<1, 20>>) THEN "increasing"
        ELSE IF RLt(diff, <<-1, 20>>) THEN "decreasing"
        ELSE "stable"

\* the lags 1 .. min(10, n / 4), n / 4 not rounded
CalculateAutocorrelation(values) ==
    LET mean_val == Mean(values)
        n == Len(values)
        lags == Min2(10, n \div 4)
        sum(lag) == SumSeq([i \in 1..(n - lag) |->
                       RMul(RSub(values[i], mean_val), RSub(values[i + lag], mean_val))])
        count(lag) == n - lag
    IN  [lag \in 1..lags |->
            IF count(lag) > 0
            THEN RDiv(sum(lag), RMul(Int2R(count(lag)), Variance(values)))
            ELSE Zero]

DetectSeasonality(values) ==
    IF Len(values) < 12 THEN FALSE
    ELSE LET autocorr == CalculateAutocorrelation(values)
         IN  \E k \in 1..Len(autocorr) : RGt(RAbs(autocorr[k]), <<3, 10>>)

\* variables.find(...): the least index in a set of indices, 0 for none
FirstIndex(indices) ==
    IF indices = {} THEN 0 ELSE CHOOSE i \in indices : \A j \in indices : i <= j

\* An optional result: the empty sequence for undefined.
PerformTimeSeriesAnalysis(variables, d) ==
    LET timeVar == FirstIndex({i \in 1..Len(variables) : IsTimeName(variables[i].name)})
        numericalVar == FirstIndex({i \in 1..Len(variables) :
                                       variables[i].type = "numerical" /\ i # timeVar})
        values == NotNullNotNaN(variables[numericalVar].values)
    IN  IF timeVar = 0 THEN <<>>
        ELSE IF numericalVar = 0 THEN <<>>
        ELSE IF Len(values) < 10 THEN <<>>
        ELSE <<[trend |-> DetectTrend(values),
                seasonality |-> DetectSeasonality(values),
                autocorrelation |-> CalculateAutocorrelation(values),
                forecast |-> <<>>]>>

\* ------------------------------------------ generateQualityControlCharts
\* |v - mean| > 3 * std, the right side a surd >= 0
ExceedsThreeSigma(v, mean_val, std_val) ==
    LET deviation == RAbs(RSub(v, mean_val))
    IN  /\ ~IsNaN(deviation) /\ ~SIsNaN(std_val)
        /\ RGt(RMul(deviation, deviation), RMul(Int2R(9), SSquare(std_val)))

QualityControlChart(variable) ==
    LET values == NotNullNotNaN(variable.values)
        mean_val == Mean(values)
        std_val == StandardDeviation(values)
        threeSigma == SMul(SOfR(Int2R(3)), std_val)
        positions == [i \in 1..Len(values) |-> i - 1]
    IN  [type |-> "x-bar",
         centerLine |-> mean_val,
         upperControlLimit |-> Shifted(mean_val, threeSigma),
         lowerControlLimit |-> Shifted(mean_val, SMul(SOfR(Int2R(-1)), threeSigma)),
         dataPoints |-> values,
         outOfControlPoints |->
            SelectSeq(positions, LAMBDA i : ExceedsThreeSigma(values[i + 1], mean_val, std_val))]

\* generateQualityControlCharts without .slice(0, 3)
GenerateQualityControlChartsUncapped(variables) ==
    LET numericalVars == SelectSeq(variables, IsNumerical)
    IN  [i \in 1..Len(numericalVars) |-> QualityControlChart(numericalVars[i])]

GenerateQualityControlCharts(variables) ==
    LET numericalVars == SelectSeq(variables, IsNumerical)
        firstThree == SubSeq(numericalVars, 1, Min2(3, Len(numericalVars)))
    IN  [i \in 1..Len(firstThree) |-> QualityControlChart(firstThree[i])]

\* ------------------------------------------ generateVisualizationMetadata
GenerateVisualizationMetadata(variables) ==
    LET numericalVars == SelectSeq(variables, IsNumerical)
        names == [i \in 1..Len(numericalVars) |-> numericalVars[i].name]
    IN  [histograms |-> names, boxplots |-> names, scatterplots |-> names,
         correlationHeatmap |-> "correlation_matrix",
         qqPlots |-> names, densityPlots |-> names, controlCharts |-> names]

\* ------------------------------------------------------ assessDataQuality
RECURSIVE SumInts(_)

SumInts(s) == IF s = <<>> THEN 0 ELSE SumInts(SubSeq(s, 1, Len(s) - 1)) + s[Len(s)]

\* assessDataQuality with the missing-value penalty added (score += ...)
AssessDataQualityRewardsMissing(dataOverview, outliers, advancedTests) ==
    LET afterMissing == RAdd(Int2R(100), RMul(dataOverview.missingValuesPercentage, Int2R(2)))
        outlierPercentage ==
            RMul(RDiv(Int2R(SumInts([i \in 1..Len(outliers) |-> Len(outliers[i].outlierIndices)])),
                      Int2R(dataOverview.totalObservations)),
                 Int2R(100))
        afterOutliers == RSub(afterMissing, outlierPercentage)
        nonNormalVars == Len(SelectSeq(advancedTests.normalityTests,
                                       LAMBDA t : RLt(t.pValue, <<1, 20>>)))
        score == RSub(afterOutliers,
                      RMul(RDiv(Int2R(nonNormalVars), Int2R(Len(advancedTests.normalityTests))),
                           Int2R(20)))
    IN  IF RGe(score, Int2R(90)) THEN "excellent"
        ELSE IF RGe(score, Int2R(70)) THEN "good"
        ELSE IF RGe(score, Int2R(50)) THEN "fair"
        ELSE "poor"

AssessDataQuality(dataOverview, outliers, advancedTests) ==
    LET afterMissing == RSub(Int2R(100), RMul(dataOverview.missingValuesPercentage, Int2R(2)))
        outlierPercentage ==
            RMul(RDiv(Int2R(SumInts([i \in 1..Len(outliers) |-> Len(outliers[i].outlierIndices)])),
                      Int2R(dataOverview.totalObservations)),
                 Int2R(100))
        afterOutliers == RSub(afterMissing, outlierPercentage)
        nonNormalVars == Len(SelectSeq(advancedTests.normalityTests,
                                       LAMBDA t : RLt(t.pValue, <<1, 20>>)))
        score == RSub(afterOutliers,
                      RMul(RDiv(Int2R(nonNormalVars), Int2R(Len(advancedTests.normalityTests))),
                           Int2R(20)))
    IN  IF RGe(score, Int2R(90)) THEN "excellent"
        ELSE IF RGe(score, Int2R(70)) THEN "good"
        ELSE IF RGe(score, Int2R(50)) THEN "fair"
        ELSE "poor"

\* ------------------------------------------------------------ analyzeData
\* The result of a call: status "returned" with the value, or "threw" with
\* the error; "none" while the call has not been made.
NoResult == [status |-> "none"]
Threw(error) == [status |-> "threw", error |-> error]
Returned(value) == [status |-> "returned", value |-> value]

AnalyzeData(d, h) ==
    LET variables == DetectVariables(d, h)
        numericalVars == SelectSeq(variables, IsNumerical)
        outliers == DetectOutliers(variables)
        totalMissing == SumInts([i \in 1..Len(variables) |-> variables[i].missingCount])
        totalValues == SumInts([i \in 1..Len(variables) |-> Len(variables[i].values)])
        dataOverview ==
            [totalObservations |-> Len(d),
             totalVariables |-> Len(h),
             numericalVariables |-> Len(numericalVars),
             categoricalVariables |-> Len(SelectSeq(variables, LAMBDA v : v.type = "categorical")),
             missingValuesPercentage |->
                 RMul(RDiv(Int2R(totalMissing), Int2R(totalValues + totalMissing)), Int2R(100))]
        advancedTests == PerformAdvancedTests(variables)
    IN  IF \E i \in 1..Len(variables) : DescriptiveStatsThrows(variables[i])
        THEN Threw("TypeError: Reduce of empty array with no initial value")
        ELSE Returned(
          [dataOverview |->
              [totalObservations |-> dataOverview.totalObservations,
               totalVariables |-> dataOverview.totalVariables,
               numericalVariables |-> dataOverview.numericalVariables,
               categoricalVariables |-> dataOverview.categoricalVariables,
               missingValuesPercentage |-> dataOverview.missingValuesPercentage,
               dataQuality |-> AssessDataQuality(dataOverview, outliers, advancedTests)],
           variables |-> variables,
           descriptiveStatistics |->
               [i \in 1..Len(variables) |-> CalculateDescriptiveStats(variables[i])],
           \* an optional field: the empty sequence when undefined
           correlationAnalysis |->
               IF Len(numericalVars) >= 2 THEN <<PerformCorrelationAnalysis(numericalVars)>>
               ELSE <<>>,
           hypothesisTests |-> PerformHypothesisTests(variables),
           outliers |-> outliers,
           regressionAnalysis |-> PerformRegressionAnalysis(variables),
           timeSeriesAnalysis |-> PerformTimeSeriesAnalysis(variables, d),
           qualityControlCharts |-> GenerateQualityControlCharts(variables),
           visualizations |-> GenerateVisualizationMetadata(variables),
           advancedTests |-> advancedTests])

\* ------------------------------------------------------------- MemStorage
\* A string value outside the tables (a message, a question, a prose field)
Text(s) == [t |-> "text", text |-> s]
\* what || and ! take for false among the values used here
Truthy(v) == v \notin {Null, Undefined, Text("")}

\* Map.set(k, v)
MapSet(m, k, v) == [x \in (DOMAIN m) \cup {k} |-> IF x = k THEN v ELSE m[x]]
\* { ...existing, ...updates }
Spread(existing, updates) ==
    [f \in (DOMAIN existing) \cup (DOMAIN updates) |->
        IF f \in DOMAIN updates THEN updates[f] ELSE existing[f]]

\* new MemStorage(): no analysis stored, the next id is 1; no run
EmptyMap == <<>>
ServerIdle ==
    /\ analyses = EmptyMap
    /\ currentAnalysisId = 1
    /\ runs = EmptyMap

\* createAnalysis: the record stored under the id taken from the counter
\* (createdAt and updatedAt, both new Date(), are not carried: nothing in
\* the routes reads them back except the ordering of getAllAnalyses).
NewAnalysis(id, insertAnalysis) ==
    [id |-> id,
     filename |-> insertAnalysis.filename,
     fileType |-> insertAnalysis.fileType,
     fileSize |-> insertAnalysis.fileSize,
     status |-> "pending",
     researchQuestion |->
         IF Truthy(insertAnalysis.researchQuestion) THEN insertAnalysis.researchQuestion
         ELSE Null,
     dataPreview |-> Null,
     statisticalResults |-> Null,
     aiInterpretation |-> Null,
     reportUrl |-> Null,
     errorMessage |-> Null]
CreateAnalysis(store, id, insertAnalysis) == MapSet(store, id, NewAnalysis(id, insertAnalysis))

\* updateAnalysis writing the record of the analysis created last, whatever
\* id it is given
UpdateAnalysisOfLatest(store, id, updates) ==
    IF store = EmptyMap THEN store
    ELSE LET latest == CHOOSE k \in DOMAIN store : \A j \in DOMAIN store : j <= k
         IN  MapSet(store, latest, Spread(store[latest], updates))

\* updateAnalysis creating the record when the id is unknown
UpdateAnalysisUpserting(store, id, updates) ==
    IF id \notin DOMAIN store THEN MapSet(store, id, updates)
    ELSE MapSet(store, id, Spread(store[id], updates))

\* updateAnalysis: the store after the call (unchanged for an unknown id)
UpdateAnalysis(store, id, updates) ==
    IF id \notin DOMAIN store THEN store
    ELSE MapSet(store, id, Spread(store[id], updates))

\* updateAnalysis: what the call returns
UpdateAnalysisReturns(store, id, updates) ==
    IF id \notin DOMAIN store THEN Undefined ELSE Spread(store[id], updates)

\* ------------------------------------------------------------- FileParser
\* An uploaded file: its name, and what the parser of its format makes of
\* its bytes (the parsed table, or the error that parser raises).
SupportedExtensions == {"csv", "xlsx", "xls", "pdf", "doc", "docx"}
ParseFile(file) ==
    IF file.extension \notin SupportedExtensions
    THEN Threw("Failed to parse file: Unsupported file format: " \o file.extension)
    ELSE IF file.content.status = "threw"
    THEN Threw("Failed to parse file: " \o file.content.error)
    ELSE Returned([data |-> file.content.value.data,
                   headers |-> file.content.value.headers,
                   metadata |-> [totalRows |-> Len(file.content.value.data),
                                 totalColumns |-> Len(file.content.value.headers),
                                 fileType |-> file.extension,
                                 fileName |-> file.originalname]])

\* ---------------------------------------------------------- OpenAIService
\* JSON.stringify and JSON.parse: a text that holds a value, and the value
\* of a text (a SyntaxError for a text that is not JSON)
JsonStringify(v) == [json |-> v]
JsonParse(s) ==
    IF "json" \in DOMAIN s THEN Returned(s.json)
    ELSE Threw("SyntaxError: Unexpected token")

\* a parsed JSON value that has properties to read (null has none)
IsObject(v) == "t" \notin DOMAIN v

InterpretationFields ==
    {"executiveSummary", "keyFindings", "statisticalSignificance",
     "practicalImplications", "limitations", "recommendations", "methodology"}

\* the return of the catch block
FallbackInterpretation ==
    [executiveSummary |-> Text("Statistical analysis completed successfully. Comprehensive results are available in the detailed sections below."),
     keyFindings |->
        << Text("Data processing completed with full variable detection"),
           Text("Descriptive statistics calculated for all numeric variables"),
           Text("Statistical tests performed where applicable"),
           Text("Professional report generated with detailed methodology") >>,
     statisticalSignificance |-> Text("Statistical significance testing completed at alpha = 0.05 level. Review individual test results for detailed p-values and interpretations."),
     practicalImplications |-> Text("Results provide quantitative insights for data-driven decision making. Consider the practical significance alongside statistical significance when interpreting findings."),
     limitations |-> Text("Standard statistical assumptions apply. Ensure data quality and appropriate test selection for your research context."),
     recommendations |->
        << Text("Review descriptive statistics for data quality assessment"),
           Text("Examine correlation patterns for relationship insights"),
           Text("Consider additional domain-specific analysis if needed"),
           Text("Validate findings with appropriate subject matter expertise") >>,
     methodology |-> Text("Analysis performed using professional statistical methods equivalent to SPSS and R. Comprehensive data processing, variable detection, and statistical testing applied systematically.")]

\* interpretation.field || fallback, for a prose field and for a list
ProseOr(interpretation, field, default) ==
    IF field \in DOMAIN interpretation /\ Truthy(interpretation[field])
    THEN interpretation[field] ELSE Text(default)
ListOr(interpretation, field) ==
    IF field \in DOMAIN interpretation THEN interpretation[field] ELSE <<>>

\* interpretStatisticalResults letting the failure of the call escape
InterpretStatisticalResultsRethrowing(results, researchQuestion, outcome) ==
    IF outcome.status = "threw" THEN Threw(outcome.error)
    ELSE Returned(FallbackInterpretation)

\* interpretStatisticalResults, given how the chat completion ended: it
\* threw, or it answered with message.content
InterpretStatisticalResults(results, researchQuestion, outcome) ==
    IF outcome.status = "threw" THEN Returned(FallbackInterpretation)
    ELSE LET content == outcome.value
             parsed == IF Truthy(content) THEN JsonParse(content) ELSE Returned(<<>>)
             \* reading a property of null raises a TypeError inside the try
         IN  IF parsed.status = "threw" \/ ~IsObject(parsed.value)
             THEN Returned(FallbackInterpretation)
             ELSE LET interpretation == parsed.value IN
                  Returned(
                    [executiveSummary |->
                        ProseOr(interpretation, "executiveSummary",
                                "Statistical analysis completed successfully."),
                     keyFindings |-> ListOr(interpretation, "keyFindings"),
                     statisticalSignificance |->
                        ProseOr(interpretation, "statisticalSignificance",
                                "Analysis shows mixed statistical significance across variables."),
                     practicalImplications |->
                        ProseOr(interpretation, "practicalImplications",
                                "Results suggest practical implications for the research domain."),
                     limitations |->
                        ProseOr(interpretation, "limitations",
                                "Standard statistical assumptions and limitations apply."),
                     recommendations |-> ListOr(interpretation, "recommendations"),
                     methodology |->
                        ProseOr(interpretation, "methodology",
                                "Standard statistical analysis methods were applied.")])

\* ------------------------------------------------------ the calls modelled
HeaderNames ==
    << <<"a", "g", "e">>, <<"i", "n", "c", "o", "m", "e">>, <<"s", "c", "o", "r", "e">> >>
NoArgs == [fn |-> "none"]

\* All tables of cols columns and rows rows over a set of cells.
RectTables(cells, cols, rows) == [1..rows -> [1..cols -> cells]]

\* -------- analyzeData(data, headers), as processAnalysis calls it
\* Cells of the tables analysed: null, two numbers and a word.
CellValues == {Null, Str(<<"0">>), Str(<<"1">>), Str(<<"a">>)}

\* Cells of the longer two-column tables analysed: numbers only.
NumericCellValues == {Str(<<"0">>), Str(<<"1">>)}

\* A table as the file parser may deliver it: rectangular, or with its last
\* row one cell short, or one cell long (the extra cell repeats the row's
\* first cell; no column reads it).
WithLastRow(d, row) == [d EXCEPT ![Len(d)] = row]
LastRowVariants(d) ==
    IF d = <<>> THEN {d}
    ELSE LET last == d[Len(d)] IN
         {d, WithLastRow(d, IF last = <<>> THEN <<Null>> ELSE Append(last, last[1]))}
           \cup (IF last = <<>> THEN {} ELSE {WithLastRow(d, SubSeq(last, 1, Len(last) - 1))})

InitAnalyze ==
    /\ pc = "call"
    /\ \E cols \in 0..3 : \E rows \in 0..MaxCells :
          /\ cols * rows <= MaxCells
          /\ (cols = 0 => rows <= 1)
          /\ headers = SubSeq(HeaderNames, 1, cols)
          /\ \/ \E d \in RectTables(CellValues, cols, rows) : data \in LastRowVariants(d)
             \/ /\ cols = 2 /\ rows = 2
                /\ \E n \in 2..MaxNumericRows : data \in RectTables(NumericCellValues, 2, n)
    /\ result = NoResult
    /\ args = NoArgs
    /\ ret = NoResult
    /\ ServerIdle

\* analyzeData with detectVariables filling the cells a short row lacks
\* (row[index] = null written back into the row)
CallAnalyzeDataPaddingRows ==
    /\ pc = "call"
    /\ args = NoArgs
    /\ pc' = "done"
    /\ result' = AnalyzeData(data, headers)
    /\ data' = [r \in 1..Len(data) |->
                  IF Len(data[r]) < Len(headers)
                  THEN data[r] \o [i \in 1..(Len(headers) - Len(data[r])) |-> Null]
                  ELSE data[r]]
    /\ UNCHANGED <<headers, args, ret, server>>

CallAnalyzeData ==
    /\ pc = "call"
    /\ args = NoArgs
    /\ pc' = "done"
    /\ result' = AnalyzeData(data, headers)
    /\ UNCHANGED <<headers, data, args, ret, server>>

Next == CallAnalyzeData

Spec == InitAnalyze /\ [][Next]_vars

\* -------- detectVariables(data, headers) on its own
\* Cells of the tables classified: the three missing forms null, undefined
\* and '', a number, a word, and a number followed by a letter.
DetectCellValues ==
    {Null, Undefined, Str(<<>>), Str(<<"0">>), Str(<<"a">>), Str(<<"1", "a">>)}

InitDetect ==
    /\ pc = "call"
    /\ \E cols \in 1..2 : \E rows \in 0..MaxDetectCells :
          /\ cols * rows <= MaxDetectCells
          /\ headers = SubSeq(HeaderNames, 1, cols)
          /\ data \in RectTables(DetectCellValues, cols, rows)
    /\ result = NoResult
    /\ args = [fn |-> "detectVariables"]
    /\ ret = NoResult
    /\ ServerIdle

CallDetectVariables ==
    /\ pc = "call"
    /\ args.fn = "detectVariables"
    /\ pc' = "done"
    /\ ret' = Returned(DetectVariables(data, headers))
    /\ UNCHANGED <<headers, data, result, args, server>>

NextDetect == CallDetectVariables

SpecDetect == InitDetect /\ [][NextDetect]_vars

\* -------- the correlation engine's methods on their own
\* Values of the numerical variables correlated.
CorrValues == {Int2R(-1), Int2R(2)}
ValueSeqs(minLen) == UNION {[1..n -> CorrValues] : n \in minLen..MaxLen}
NumVar(name, values) ==
    [name |-> name, type |-> "numerical", values |-> values, missingCount |-> 0]

InitCorrelation ==
    /\ pc = "call"
    /\ headers = <<>>
    /\ data = <<>>
    /\ result = NoResult
    /\ ret = NoResult
    /\ ServerIdle
    /\ \/ \E x \in ValueSeqs(0), y \in ValueSeqs(0) :
             args = [fn |-> "calculatePearsonCorrelation", x |-> x, y |-> y]
       \/ \E x \in ValueSeqs(1), y \in ValueSeqs(1) :
             args = [fn |-> "performCorrelationAnalysis",
                     numericalVars |-> <<NumVar("age", x), NumVar("income", y)>>]
       \/ \E k \in -RDen..RDen, n \in 0..MaxN :
             args = [fn |-> "calculateCorrelationPValue", r |-> Frac(k, RDen), n |-> n]

CallCalculatePearsonCorrelation ==
    /\ pc = "call"
    /\ args.fn = "calculatePearsonCorrelation"
    /\ pc' = "done"
    /\ ret' = Returned(CalculatePearsonCorrelation(args.x, args.y))
    /\ UNCHANGED <<headers, data, result, args, server>>

CallPerformCorrelationAnalysis ==
    /\ pc = "call"
    /\ args.fn = "performCorrelationAnalysis"
    /\ pc' = "done"
    /\ ret' = Returned(PerformCorrelationAnalysis(args.numericalVars))
    /\ UNCHANGED <<headers, data, result, args, server>>

CallCalculateCorrelationPValue ==
    /\ pc = "call"
    /\ args.fn = "calculateCorrelationPValue"
    /\ pc' = "done"
    /\ ret' = Returned(CalculateCorrelationPValue(SOfR(args.r), args.n))
    /\ UNCHANGED <<headers, data, result, args, server>>

NextCorrelation ==
    \/ CallCalculatePearsonCorrelation
    \/ CallPerformCorrelationAnalysis
    \/ CallCalculateCorrelationPValue

SpecCorrelation == InitCorrelation /\ [][NextCorrelation]_vars

\* -------- the engine's other private methods on their own
EngineNames ==
    HeaderNames \o << <<"h", "e", "i", "g", "h", "t">>, <<"w", "i", "d", "t", "h">>,
                      <<"d", "e", "p", "t", "h">> >>
CatVar(name) ==
    [name |-> name, type |-> "categorical",
     values |-> <<Str(<<"a">>), Str(<<"b">>)>>, missingCount |-> 0]
\* the variables of a table, named by position as detectVariables names them
Named(variables) ==
    [i \in 1..Len(variables) |-> [variables[i] EXCEPT !.name = EngineNames[i]]]

\* Values of the variables searched for outliers.
OutlierValues == {Int2R(-1), Int2R(0), Int2R(2)}
OutlierSeqs == UNION {[1..n -> OutlierValues] : n \in 1..MaxOutlierLen}
OutlierArgs ==
    LET age == EngineNames[1]
        spiked == NumVar(age, <<Zero, Zero, Zero, Zero, Int2R(2)>>)
        short == NumVar(age, <<Zero, Int2R(2)>>)
    IN  UNION {{<<NumVar(age, x)>>, <<CatVar(age), NumVar(age, x)>>,
                <<NumVar(age, x), spiked>>, <<short, NumVar(age, x)>>} : x \in OutlierSeqs}

\* Value sequences of n values: a ramp 1, 2, ..., n, a zigzag i * i % 5, a
\* constant, and zeros with a 1 at the end.
Ramp(n) == [i \in 1..n |-> Int2R(i)]
Zigzag(n) == [i \in 1..n |-> Int2R((i * i) % 5)]
Constant(n) == [i \in 1..n |-> Int2R(1)]
Spike(n) == [i \in 1..n |-> IF i = n THEN One ELSE Zero]
\* All lists of 0 .. MaxVars variables drawn from a pool.
VariableLists(pool) == UNION {[1..k -> pool] : k \in 0..MaxVars}

RegressionPool ==
    LET age == EngineNames[1]
    IN  {CatVar(age), NumVar(age, Ramp(10)), NumVar(age, Ramp(11)),
         NumVar(age, Zigzag(12))}

\* Variables of a table with a date or time column: the names by position,
\* the first one "Date" or the second one "Uptime" or neither.
TimeSeriesPool ==
    LET age == EngineNames[1]
    IN  {CatVar(age), NumVar(age, Ramp(9)), NumVar(age, Ramp(10)), NumVar(age, Zigzag(12))}
Renamed(variables, i, name) ==
    IF i <= Len(variables) THEN [variables EXCEPT ![i].name = name] ELSE variables
TimeSeriesArgs ==
    UNION {{Named(v), Renamed(Named(v), 1, <<"D", "a", "t", "e">>),
            Renamed(Named(v), 2, <<"U", "p", "t", "i", "m", "e">>)}
           : v \in VariableLists(TimeSeriesPool)}

ChartPool ==
    LET age == EngineNames[1]
    IN  {CatVar(age), NumVar(age, Constant(2)), NumVar(age, Spike(5)), NumVar(age, Spike(11))}

\* Arguments of assessDataQuality: a missing-value percentage in steps of
\* 2.5, 0, 10 or 20 observations, outlier entries with 1 or 2 indices, and
\* normality p-values 0.8 and 0.01.
MissingPercentages == {Frac(5 * k, 2) : k \in 0..MaxMissingSteps}
OutlierLists ==
    LET entry(indices) == [variable |-> EngineNames[1], outlierIndices |-> indices,
                           outlierValues |-> [i \in 1..Len(indices) |-> Int2R(2)]]
    IN  {<<>>, <<entry(<<4>>)>>, <<entry(<<0, 4>>), entry(<<3>>)>>}
NormalityLists ==
    LET test(p) == [variable |-> EngineNames[1], shapiroWilk |-> One, jarqueBera |-> Zero,
                    pValue |-> p]
    IN  {<<>>, <<test(<<4, 5>>)>>, <<test(<<1, 100>>)>>, <<test(<<4, 5>>), test(<<1, 100>>)>>}
Overview(missing, observations) ==
    [totalObservations |-> observations, totalVariables |-> 2, numericalVariables |-> 2,
     categoricalVariables |-> 0, missingValuesPercentage |-> missing]

\* Arguments of detectTrend: series as long as performTimeSeriesAnalysis
\* passes (10 values or more) that hold one level in the first half and
\* one in the second, the levels negative, zero or positive.
TrendLen == 10
TrendLevel == 2
Step(n, a, b) == [i \in 1..n |-> Int2R(IF i <= n \div 2 THEN a ELSE b)]
TrendArgs == {Step(TrendLen, a, b) : a, b \in (-TrendLevel)..TrendLevel}

InitEngine ==
    /\ pc = "call"
    /\ headers = <<>>
    /\ data = <<>>
    /\ result = NoResult
    /\ ret = NoResult
    /\ ServerIdle
    /\ \/ \E variables \in OutlierArgs :
             args = [fn |-> "detectOutliers", variables |-> Named(variables)]
       \/ \E variables \in VariableLists(RegressionPool) :
             args = [fn |-> "performRegressionAnalysis", variables |-> Named(variables)]
       \/ \E variables \in VariableLists(ChartPool) :
             args = [fn |-> "generateQualityControlCharts", variables |-> Named(variables)]
       \/ \E missing \in MissingPercentages, more \in MissingPercentages,
                observations \in {0, 10, 20}, outliers \in OutlierLists,
                normalityTests \in NormalityLists :
             args = [fn |-> "assessDataQuality",
                     dataOverview |-> Overview(missing, observations),
                     withMoreMissing |-> Overview(more, observations),
                     outliers |-> outliers,
                     advancedTests |-> [normalityTests |-> normalityTests]]
       \/ \E variables \in TimeSeriesArgs :
             args = [fn |-> "performTimeSeriesAnalysis", variables |-> variables]
       \/ \E values \in TrendArgs :
             args = [fn |-> "detectTrend", values |-> values]

CallDetectOutliers ==
    /\ pc = "call"
    /\ args.fn = "detectOutliers"
    /\ pc' = "done"
    /\ ret' = Returned(DetectOutliers(args.variables))
    /\ UNCHANGED <<headers, data, result, args, server>>

CallPerformRegressionAnalysis ==
    /\ pc = "call"
    /\ args.fn = "performRegressionAnalysis"
    /\ pc' = "done"
    /\ ret' = Returned(PerformRegressionAnalysis(args.variables))
    /\ UNCHANGED <<headers, data, result, args, server>>

\* analyzeData passes its own data along; performTimeSeriesAnalysis reads none
\* of it.
CallPerformTimeSeriesAnalysis ==
    /\ pc = "call"
    /\ args.fn = "performTimeSeriesAnalysis"
    /\ pc' = "done"
    /\ ret' = Returned(PerformTimeSeriesAnalysis(args.variables, data))
    /\ UNCHANGED <<headers, data, result, args, server>>

CallGenerateQualityControlCharts ==
    /\ pc = "call"
    /\ args.fn = "generateQualityControlCharts"
    /\ pc' = "done"
    /\ ret' = Returned(GenerateQualityControlCharts(args.variables))
    /\ UNCHANGED <<headers, data, result, args, server>>

\* assessDataQuality called twice, on overviews that differ in the
\* missing-value percentage only
CallAssessDataQuality ==
    /\ pc = "call"
    /\ args.fn = "assessDataQuality"
    /\ pc' = "done"
    /\ ret' = Returned(
          [grade |-> AssessDataQuality(args.dataOverview, args.outliers, args.advancedTests),
           gradeWithMoreMissing |->
               AssessDataQuality(args.withMoreMissing, args.outliers, args.advancedTests)])
    /\ UNCHANGED <<headers, data, result, args, server>>

CallDetectTrend ==
    /\ pc = "call"
    /\ args.fn = "detectTrend"
    /\ pc' = "done"
    /\ ret' = Returned(DetectTrend(args.values))
    /\ UNCHANGED <<headers, data, result, args, server>>

NextEngine ==
    \/ CallDetectOutliers
    \/ CallPerformRegressionAnalysis
    \/ CallPerformTimeSeriesAnalysis
    \/ CallGenerateQualityControlCharts
    \/ CallAssessDataQuality
    \/ CallDetectTrend

SpecEngine == InitEngine /\ [][NextEngine]_vars

\* ---------------------------------------------------------------- routes
\* The uploads the clients send: the file of the multipart request and
\* req.body.researchQuestion.
MaxUploads == 2

Table(h, d) == Returned([headers |-> h, data |-> d])
AgesFile ==
    [originalname |-> "ages.csv", extension |-> "csv", mimetype |-> "text/csv", size |-> 12,
     content |-> Table(<< <<"a", "g", "e">> >>,
                       << <<Str(<<"1">>)>>, <<Str(<<"0">>)>>, <<Str(<<"1">>)>> >>)]
IncomesFile ==
    [originalname |-> "incomes.xlsx", extension |-> "xlsx",
     mimetype |-> "application/vnd.ms-excel", size |-> 30,
     content |-> Table(<< <<"i", "n", "c", "o", "m", "e">>, <<"s", "c", "o", "r", "e">> >>,
                       << <<Str(<<"1">>), Str(<<"0">>)>>, <<Str(<<"0">>), Str(<<"1">>)>> >>)]
\* a column without one value: analyzeData raises on it
BlankFile ==
    [originalname |-> "blank.csv", extension |-> "csv", mimetype |-> "text/csv", size |-> 5,
     content |-> Table(<< <<"a", "g", "e">> >>, << <<Str(<<>>)>> >>)]
\* a format parseFile does not know
NotesFile ==
    [originalname |-> "notes.txt", extension |-> "txt", mimetype |-> "text/plain", size |-> 7,
     content |-> Threw("unread")]
\* a format parseFile knows, whose parser raises
BrokenFile ==
    [originalname |-> "broken.pdf", extension |-> "pdf", mimetype |-> "application/pdf",
     size |-> 9, content |-> Threw("Invalid PDF structure")]

Uploads ==
    {[file |-> AgesFile, researchQuestion |-> Text("Does age matter?")],
     [file |-> IncomesFile, researchQuestion |-> Undefined],
     [file |-> BlankFile, researchQuestion |-> Text("")],
     [file |-> NotesFile, researchQuestion |-> Undefined],
     [file |-> BrokenFile, researchQuestion |-> Undefined]}

\* How the chat completion can end: it throws (no key, no network), or it
\* answers with message.content: a text that is not JSON, an object lacking
\* fields, a full object.
PartialAnswer == [executiveSummary |-> Text("Two variables were analysed."),
                  limitations |-> Text("")]
FullAnswer ==
    [executiveSummary |-> Text("Two variables were analysed."),
     keyFindings |-> << Text("The sample is small") >>,
     statisticalSignificance |-> Text("No test is significant."),
     practicalImplications |-> Text("None."),
     limitations |-> Text("Few observations."),
     recommendations |-> << Text("Collect more data") >>,
     methodology |-> Text("Descriptive statistics and t tests.")]
CompletionOutcomes ==
    {Threw("401 Incorrect API key provided"),
     Returned(Text("I'm sorry, I cannot help with that.")),
     Returned(JsonStringify(PartialAnswer)),
     Returned(JsonStringify(FullAnswer))}

\* String(error) in place of error.message: the name comes first
ErrorToString(error) ==
    IF error = "TypeError: Reduce of empty array with no initial value" THEN error
    ELSE "Error: " \o error

\* error.message of what the model names "Name: message"
MessageOf(error) ==
    IF error = "TypeError: Reduce of empty array with no initial value"
    THEN "Reduce of empty array with no initial value"
    ELSE error

\* A processAnalysis invocation: where it is suspended, its arguments and
\* its locals.
NewRun(upload) ==
    [pc |-> "created",
     file |-> upload.file,
     researchQuestion |-> upload.researchQuestion,
     parsedData |-> Null,
     statisticalResults |-> Null,
     \* how the chat completion awaited by interpretStatisticalResults ended
     completion |-> NoResult]
At(id, where) == id \in DOMAIN runs /\ runs[id].pc = where
Goto(id, where) == [runs EXCEPT ![id].pc = where]

InitServer ==
    /\ pc = "serving"
    /\ headers = <<>>
    /\ data = <<>>
    /\ result = NoResult
    /\ args = NoArgs
    /\ ret = NoResult
    /\ ServerIdle

engine == <<pc, headers, data, result, args>>
\* ret holds the answer sent by the step just taken, if it sent one
NoAnswer == ret' = NoResult /\ UNCHANGED engine

\* POST /api/analyze with a file, up to the await of storage.createAnalysis
Post(uploads) ==
    /\ pc = "serving"
    /\ currentAnalysisId <= MaxUploads
    /\ \E upload \in uploads :
         LET id == currentAnalysisId
             analysisData == [filename |-> upload.file.originalname,
                              fileType |-> upload.file.mimetype,
                              fileSize |-> upload.file.size,
                              researchQuestion |->
                                  IF Truthy(upload.researchQuestion)
                                  THEN upload.researchQuestion ELSE Undefined]
         IN  /\ currentAnalysisId' = id + 1
             /\ analyses' = CreateAnalysis(analyses, id, analysisData)
             /\ runs' = MapSet(runs, id, NewRun(upload))
    /\ NoAnswer

PostAnalyze == Post(Uploads)

\* the same step with the update to status processing left out
StartProcessAnalysisUnmarked(id) ==
    /\ At(id, "created")
    /\ analyses' = analyses
    /\ runs' = Goto(id, "processing")
    /\ ret' = [route |-> "analyze", code |-> 200, message |-> "File uploaded successfully",
                analysisId |-> id, status |-> "processing"]
    /\ UNCHANGED <<engine, currentAnalysisId>>

\* POST /api/analyze after that await: processAnalysis is called and runs
\* to its first await, then the answer is sent
StartProcessAnalysis(id) ==
    /\ At(id, "created")
    /\ analyses' = UpdateAnalysis(analyses, id, [status |-> "processing"])
    /\ runs' = Goto(id, "processing")
    /\ ret' = [route |-> "analyze", code |-> 200, message |-> "File uploaded successfully",
                analysisId |-> id, status |-> "processing"]
    /\ UNCHANGED <<engine, currentAnalysisId>>

\* processAnalysis after await updateAnalysis(processing): parseFile called
CallParseFile(id) ==
    /\ At(id, "processing")
    /\ runs' = Goto(id, "parsing")
    /\ NoAnswer
    /\ UNCHANGED <<analyses, currentAnalysisId>>

\* a catch block that only logs the error
CatchLogging(id, error) == analyses' = analyses

\* a catch block that stores the message and leaves the status
CatchKeepingStatus(id, error) ==
    analyses' = UpdateAnalysis(analyses, id, [errorMessage |-> Text(MessageOf(error))])

\* the catch block of processAnalysis (nothing follows its await)
Catch(id, error) ==
    analyses' = UpdateAnalysis(analyses, id,
                    [status |-> "failed", errorMessage |-> Text(MessageOf(error))])

\* parseFile settles: the preview is stored, or the catch block runs
ParseFileSettles(id) ==
    /\ At(id, "parsing")
    /\ \E parsed \in {ParseFile(runs[id].file)} :
       IF parsed.status = "threw"
       THEN /\ Catch(id, parsed.error)
            /\ runs' = Goto(id, "done")
       ELSE /\ analyses' = UpdateAnalysis(analyses, id,
                  [dataPreview |-> [headers |-> parsed.value.headers,
                                    sampleData |-> Slice(parsed.value.data, 10),
                                    metadata |-> parsed.value.metadata]])
            /\ runs' = [runs EXCEPT ![id].pc = "previewed", ![id].parsedData = parsed.value]
    /\ NoAnswer
    /\ UNCHANGED currentAnalysisId

\* what parseFile returns on the uploaded files, and what analyzeData
\* returns on each of these tables (computed once)
ParsedTables ==
    {ParseFile(u.file).value : u \in {v \in Uploads : ParseFile(v.file).status = "returned"}}
AnalyzeDataOf == [parsed \in ParsedTables |-> AnalyzeData(parsed.data, parsed.headers)]

\* after await updateAnalysis(dataPreview): analyzeData on the shared
\* instance, then interpretStatisticalResults to its await
Analyze(id) ==
    /\ At(id, "previewed")
    /\ \E statisticalResults \in {AnalyzeDataOf[runs[id].parsedData]} :
       IF statisticalResults.status = "threw"
       THEN /\ Catch(id, statisticalResults.error)
            /\ runs' = Goto(id, "done")
       ELSE /\ runs' = [runs EXCEPT ![id].pc = "interpreting",
                                    ![id].statisticalResults = statisticalResults.value]
            /\ UNCHANGED analyses
    /\ NoAnswer
    /\ UNCHANGED currentAnalysisId

\* the chat completion ends, interpretStatisticalResults settles, and
\* processAnalysis stores the complete results (nothing follows that await)
InterpretationSettles(id) ==
    /\ At(id, "interpreting")
    /\ \E outcome \in CompletionOutcomes :
         \E aiInterpretation \in
                 {InterpretStatisticalResults(runs[id].statisticalResults,
                                              runs[id].researchQuestion, outcome)} :
         /\ IF aiInterpretation.status = "threw" THEN Catch(id, aiInterpretation.error)
            ELSE analyses' = UpdateAnalysis(analyses, id,
                    [status |-> "completed",
                     statisticalResults |-> runs[id].statisticalResults,
                     aiInterpretation |-> JsonStringify(aiInterpretation.value)])
         /\ runs' = [runs EXCEPT ![id].pc = "done", ![id].completion = outcome]
    /\ NoAnswer
    /\ UNCHANGED currentAnalysisId

RunIds == 1..(MaxUploads + 1)

StepStartProcessAnalysis == \E id \in RunIds : StartProcessAnalysis(id)
StepCallParseFile == \E id \in RunIds : CallParseFile(id)
StepParseFileSettles == \E id \in RunIds : ParseFileSettles(id)
StepAnalyze == \E id \in RunIds : Analyze(id)
StepInterpretationSettles == \E id \in RunIds : InterpretationSettles(id)

NextServer ==
    \/ PostAnalyze
    \/ StepStartProcessAnalysis
    \/ StepCallParseFile
    \/ StepParseFileSettles
    \/ StepAnalyze
    \/ StepInterpretationSettles

SpecServer == InitServer /\ [][NextServer]_vars


\* -------------------------------------------------------- ReportGenerator
\* A report is the sequence of its sections, each with its title and the
\* number of entries written under it; a rendering step that reads a
\* property of undefined raises a TypeError. Writing the file (fs, pdfkit)
\* is taken to succeed, and Date.now() in the file name is not carried.
Section(title, items) == Returned([title |-> title, items |-> items])
TypeErrorReading(property) ==
    Threw("TypeError: Cannot read properties of undefined (reading '" \o property \o "')")

\* an optional field or a list holds something
Present(part) == part # <<>>

AddReportHeader(analysis) == Section("Statistical Analysis Report", 1)
AddSection(title, content) == Section(title, 1)
AddDataOverview(results) == Section("Data Overview", Len(results.variables))
AddDescriptiveStatistics(results) ==
    Section("Descriptive Statistics", Len(results.descriptiveStatistics))
AddHypothesisTests(results) == Section("Statistical Tests", Len(results.hypothesisTests))
\* if (!results.correlationAnalysis) return: the page stays blank
AddCorrelationAnalysis(results) ==
    IF ~Present(results.correlationAnalysis) THEN Section("", 0)
    ELSE Section("Correlation Analysis", Len(results.correlationAnalysis[1].correlationMatrix))
AddAdvancedTests(results) ==
    Section("Advanced Statistical Tests", Len(results.advancedTests.normalityTests))
AddRegressionAnalysis(results) ==
    Section("Regression Analysis", Len(results.regressionAnalysis))
\* results.qualityControlCharts.forEach((chart, index) => ...): the heading
\* of chart index, `${type}-Chart for ${variable?.name || 'Variable ' + (index + 1)}`
\* with variable = results.variables[index]
ChartLabel(results, index) ==
    LET named == index + 1 <= Len(results.variables)
                 /\ results.variables[index + 1].name # <<>>
    IN  IF named THEN results.variables[index + 1].name
        ELSE <<"V", "a", "r", "i", "a", "b", "l", "e", " ", DigitChars[index + 2]>>
ChartSection(title, results) ==
    Returned([title |-> title, items |-> Len(results.qualityControlCharts),
              labels |-> [i \in 1..Len(results.qualityControlCharts) |->
                             ChartLabel(results, i - 1)]])
AddQualityControlSection(results) == ChartSection("Quality Control Charts", results)
\* const ts = results.timeSeriesAnalysis!; ts.trend.toUpperCase()
AddTimeSeriesAnalysis(results) ==
    IF ~Present(results.timeSeriesAnalysis) THEN TypeErrorReading("trend")
    ELSE Section("Time Series Analysis",
                 Len(Slice(results.timeSeriesAnalysis[1].autocorrelation, 5)))
AddAIInterpretation(interpretation) ==
    Section("AI-Powered Interpretation",
            Len(interpretation.keyFindings) + Len(interpretation.recommendations))
AddMethodology(interpretation) == Section("Methodology", 1)

\* the sections written so far, or the first error raised
Rendered(steps) ==
    IF \E i \in 1..Len(steps) : steps[i].status = "threw"
    THEN steps[CHOOSE i \in 1..Len(steps) :
                  /\ steps[i].status = "threw"
                  /\ \A j \in 1..(i - 1) : steps[j].status # "threw"]
    ELSE Returned([i \in 1..Len(steps) |-> steps[i].value])

\* generatePDFReport adding the time series page without the test
\* if (results.timeSeriesAnalysis)
GeneratePDFReportUnguarded(analysis, results, interpretation) ==
    LET sections ==
          Rendered(
            << AddReportHeader(analysis),
               AddSection("Executive Summary", interpretation.executiveSummary),
               AddDataOverview(results),
               AddDescriptiveStatistics(results) >>
            \o (IF Len(results.hypothesisTests) > 0
                THEN <<AddHypothesisTests(results)>> ELSE <<>>)
            \o (IF Present(results.correlationAnalysis)
                THEN <<AddCorrelationAnalysis(results)>> ELSE <<>>)
            \o (IF Len(results.advancedTests.normalityTests) > 0
                THEN <<AddAdvancedTests(results)>> ELSE <<>>)
            \o (IF Len(results.regressionAnalysis) > 0
                THEN <<AddRegressionAnalysis(results)>> ELSE <<>>)
            \o (IF Len(results.qualityControlCharts) > 0
                THEN <<AddQualityControlSection(results)>> ELSE <<>>)
            \o <<AddTimeSeriesAnalysis(results)>>
            \o << AddAIInterpretation(interpretation), AddMethodology(interpretation) >>)
    IN  IF sections.status = "threw" THEN sections
        ELSE Returned([fileName |-> [id |-> analysis.id, extension |-> "pdf"],
                       sections |-> sections.value])

GeneratePDFReport(analysis, results, interpretation) ==
    LET sections ==
          Rendered(
            << AddReportHeader(analysis),
               AddSection("Executive Summary", interpretation.executiveSummary),
               AddDataOverview(results),
               AddDescriptiveStatistics(results) >>
            \o (IF Len(results.hypothesisTests) > 0
                THEN <<AddHypothesisTests(results)>> ELSE <<>>)
            \o (IF Present(results.correlationAnalysis)
                THEN <<AddCorrelationAnalysis(results)>> ELSE <<>>)
            \o (IF Len(results.advancedTests.normalityTests) > 0
                THEN <<AddAdvancedTests(results)>> ELSE <<>>)
            \o (IF Len(results.regressionAnalysis) > 0
                THEN <<AddRegressionAnalysis(results)>> ELSE <<>>)
            \o (IF Len(results.qualityControlCharts) > 0
                THEN <<AddQualityControlSection(results)>> ELSE <<>>)
            \o (IF Present(results.timeSeriesAnalysis)
                THEN <<AddTimeSeriesAnalysis(results)>> ELSE <<>>)
            \o << AddAIInterpretation(interpretation), AddMethodology(interpretation) >>)
    IN  IF sections.status = "threw" THEN sections
        ELSE Returned([fileName |-> [id |-> analysis.id, extension |-> "pdf"],
                       sections |-> sections.value])

\* the plain-text report: the content is built by string concatenation
GenerateWordReport(analysis, results, interpretation) ==
    LET sections ==
          Rendered(
            << Section("STATISTICAL ANALYSIS REPORT", 1),
               Section("EXECUTIVE SUMMARY", 1),
               Section("DATA OVERVIEW", 5),
               Section("KEY FINDINGS", Len(interpretation.keyFindings)),
               Section("DESCRIPTIVE STATISTICS", Len(results.descriptiveStatistics)) >>
            \o (IF Len(results.qualityControlCharts) > 0
                THEN <<ChartSection("QUALITY CONTROL CHARTS", results)>>
                ELSE <<>>))
    IN  IF sections.status = "threw" THEN sections
        ELSE Returned([fileName |-> [id |-> analysis.id, extension |-> "txt"],
                       sections |-> sections.value])

GenerateReport(analysis, statisticalResults, aiInterpretation, options) ==
    IF options.format = "pdf"
    THEN GeneratePDFReport(analysis, statisticalResults, aiInterpretation)
    ELSE GenerateWordReport(analysis, statisticalResults, aiInterpretation)

\* -------- generateReport on its own
\* The results reported: what analyzeData returns on an empty table, on a
\* column of words, on one and on two columns of numbers and on a dated
\* table of eleven rows, and each of these with any of its optional parts
\* taken away.
OptionalParts ==
    {"correlationAnalysis", "timeSeriesAnalysis", "regressionAnalysis",
     "qualityControlCharts", "hypothesisTests"}
Number(digits) == Str(digits)
DatedTable ==
    [headers |-> << <<"D", "a", "t", "e">>, <<"i", "n", "c", "o", "m", "e">>,
                    <<"s", "c", "o", "r", "e">> >>,
     data |-> [i \in 1..11 |->
                 << Str(<<"d">>),
                    Number(IF i >= 10 THEN <<"1", DigitChars[i - 9]>> ELSE <<DigitChars[i + 1]>>),
                    Number(IF i >= 10 THEN <<"1", DigitChars[i - 9]>> ELSE <<DigitChars[i + 1]>>) >>]]
ReportedTables ==
    {[headers |-> <<>>, data |-> <<>>],
     [headers |-> << <<"a", "g", "e">> >>, data |-> << <<Str(<<"a">>)>>, <<Str(<<"b">>)>> >>],
     [headers |-> << <<"a", "g", "e">> >>, data |-> << <<Str(<<"1">>)>>, <<Str(<<"0">>)>> >>],
     IncomesFile.content.value,
     DatedTable}
Without(results, absent) ==
    [part \in DOMAIN results |-> IF part \in absent THEN <<>> ELSE results[part]]
ReportedInterpretations ==
    {FallbackInterpretation,
     InterpretStatisticalResults(<<>>, Undefined, Returned(Null)).value}

InitReport ==
    /\ pc = "call"
    /\ headers = <<>>
    /\ data = <<>>
    /\ result = NoResult
    /\ \E table \in ReportedTables : \E absent \in SUBSET OptionalParts :
       \E interpretation \in ReportedInterpretations : \E format \in {"pdf", "word"} :
       \E analyzed \in {AnalyzeData(table.data, table.headers)} :
          /\ analyzed.status = "returned"
          /\ args = [fn |-> "generateReport",
                     analysis |-> [id |-> 1, filename |-> "ages.csv"],
                     statisticalResults |-> Without(analyzed.value, absent),
                     aiInterpretation |-> interpretation,
                     options |-> [format |-> format, includeCharts |-> TRUE,
                                  includeRawData |-> FALSE]]
    /\ ret = NoResult
    /\ ServerIdle

CallGenerateReport ==
    /\ pc = "call"
    /\ args.fn = "generateReport"
    /\ pc' = "done"
    /\ ret' = GenerateReport(args.analysis, args.statisticalResults,
                             args.aiInterpretation, args.options)
    /\ UNCHANGED <<headers, data, result, args, server>>

NextReport == CallGenerateReport

SpecReport == InitReport /\ [][NextReport]_vars

\* -------- the server with its GET routes
\* The files uploaded while requests are answered: one that is analysed,
\* one that analyzeData raises on, one that parseFile raises on.
RequestUploads == {u \in Uploads : u.file \in {AgesFile, BlankFile, NotesFile}}
PostAnalyzeRequest == Post(RequestUploads)

\* POST /api/analyze without a file
PostWithoutFile ==
    /\ pc = "serving"
    /\ ret' = [route |-> "analyze", code |-> 400, message |-> "No file uploaded"]
    /\ UNCHANGED <<engine, server>>

\* GET /api/analysis/:id
GetAnalysis(id) ==
    /\ pc = "serving"
    /\ ret' = IF id \notin DOMAIN analyses
              THEN [route |-> "analysis", id |-> id, code |-> 404,
                    message |-> "Analysis not found"]
              ELSE [route |-> "analysis", id |-> id, code |-> 200, body |-> analyses[id]]
    /\ UNCHANGED <<engine, server>>

\* req.query.format: absent ("") or given
QueryFormats == {"", "word"}

\* the report route without the test of the status
ReportAnswerOfAnyStatus(id, query) ==
    LET format == IF query = "" THEN "pdf" ELSE query
        refuse(code, message, generated) ==
            [route |-> "report", id |-> id, code |-> code, message |-> message,
             generated |-> generated]
    IN  IF id \notin DOMAIN analyses
        THEN refuse(404, "Analysis not found or not completed", FALSE)
        ELSE IF ~Truthy(analyses[id].statisticalResults)
        THEN refuse(400, "No statistical results available", FALSE)
        ELSE LET interpretation ==
                     JsonParse(IF Truthy(analyses[id].aiInterpretation)
                               THEN analyses[id].aiInterpretation
                               ELSE JsonStringify(<<>>))
                 report == GenerateReport(analyses[id], analyses[id].statisticalResults,
                                          interpretation.value,
                                          [format |-> format, includeCharts |-> TRUE,
                                           includeRawData |-> FALSE])
             IN  IF interpretation.status = "threw"
                 THEN refuse(500, MessageOf(interpretation.error), FALSE)
                 ELSE IF report.status = "threw"
                 THEN refuse(500, MessageOf(report.error), TRUE)
                 ELSE [route |-> "report", id |-> id, code |-> 200,
                       contentType |-> IF format = "pdf" THEN "application/pdf"
                                       ELSE "text/plain",
                       file |-> report.value, generated |-> TRUE]

\* the answer of GET /api/analysis/:id/report; generated tells whether
\* reportGenerator.generateReport was called
ReportAnswer(id, query) ==
    LET format == IF query = "" THEN "pdf" ELSE query
        refuse(code, message, generated) ==
            [route |-> "report", id |-> id, code |-> code, message |-> message,
             generated |-> generated]
    IN  IF id \notin DOMAIN analyses \/ analyses[id].status # "completed"
        THEN refuse(404, "Analysis not found or not completed", FALSE)
        ELSE IF ~Truthy(analyses[id].statisticalResults)
        THEN refuse(400, "No statistical results available", FALSE)
        ELSE LET interpretation ==
                     JsonParse(IF Truthy(analyses[id].aiInterpretation)
                               THEN analyses[id].aiInterpretation
                               ELSE JsonStringify(<<>>))
                 report == GenerateReport(analyses[id], analyses[id].statisticalResults,
                                          interpretation.value,
                                          [format |-> format, includeCharts |-> TRUE,
                                           includeRawData |-> FALSE])
             IN  IF interpretation.status = "threw"
                 THEN refuse(500, MessageOf(interpretation.error), FALSE)
                 ELSE IF report.status = "threw"
                 THEN refuse(500, MessageOf(report.error), TRUE)
                 ELSE [route |-> "report", id |-> id, code |-> 200,
                       contentType |-> IF format = "pdf" THEN "application/pdf"
                                       ELSE "text/plain",
                       file |-> report.value, generated |-> TRUE]

GetReport(id, query) ==
    /\ pc = "serving"
    /\ ret' = ReportAnswer(id, query)
    /\ UNCHANGED <<engine, server>>

StepGetAnalysis == \E id \in RunIds : GetAnalysis(id)
StepGetReport == \E id \in RunIds : \E query \in QueryFormats : GetReport(id, query)

\* a step of one of the processAnalysis runs
ProcessStep ==
    \/ StepStartProcessAnalysis
    \/ StepCallParseFile
    \/ StepParseFileSettles
    \/ StepAnalyze
    \/ StepInterpretationSettles

NextRequests ==
    \/ PostAnalyzeRequest
    \/ PostWithoutFile
    \/ StepGetAnalysis
    \/ StepGetReport
    \/ StepStartProcessAnalysis
    \/ StepCallParseFile
    \/ StepParseFileSettles
    \/ StepAnalyze
    \/ StepInterpretationSettles

SpecRequests == InitServer /\ [][NextRequests]_vars

\* Every awaited promise settles (storage calls resolve at once; parsing and
\* the interpretation call are taken to terminate) and the event loop runs
\* each continuation that is ready: a run that can take a step takes one.
SpecRequestsFair == SpecRequests /\ WF_vars(ProcessStep)

\* -------- MemStorage on its own
\* createAnalysis and updateAnalysis called in any order, with the
\* arguments the routes pass and with ids that were never created.
MaxCreated == 2
InsertAnalyses ==
    {[filename |-> "ages.csv", fileType |-> "text/csv", fileSize |-> 12,
      researchQuestion |-> Text("Does age matter?")],
     [filename |-> "notes.txt", fileType |-> "text/plain", fileSize |-> 5,
      researchQuestion |-> Undefined]}
StorageUpdates ==
    {[status |-> "processing"],
     [dataPreview |-> [headers |-> <<"age">>, sampleData |-> <<>>, metadata |-> Null]],
     [status |-> "completed", statisticalResults |-> [variables |-> <<>>],
      aiInterpretation |-> JsonStringify(FallbackInterpretation)],
     [status |-> "failed", errorMessage |-> Text("Invalid PDF structure")]}

InitStorage ==
    /\ pc = "storage"
    /\ headers = <<>>
    /\ data = <<>>
    /\ result = NoResult
    /\ args = NoArgs
    /\ ret = NoResult
    /\ ServerIdle

CallCreateAnalysis ==
    /\ pc = "storage"
    /\ currentAnalysisId <= MaxCreated
    /\ \E insertAnalysis \in InsertAnalyses :
         /\ analyses' = CreateAnalysis(analyses, currentAnalysisId, insertAnalysis)
         /\ ret' = [call |-> "createAnalysis",
                    value |-> NewAnalysis(currentAnalysisId, insertAnalysis)]
    /\ currentAnalysisId' = currentAnalysisId + 1
    /\ UNCHANGED <<engine, runs>>

CallUpdateAnalysis ==
    /\ pc = "storage"
    /\ \E id \in 1..(MaxCreated + 1) : \E updates \in StorageUpdates :
         /\ analyses' = UpdateAnalysis(analyses, id, updates)
         /\ ret' = [call |-> "updateAnalysis", id |-> id,
                    value |-> UpdateAnalysisReturns(analyses, id, updates)]
    /\ UNCHANGED <<engine, runs, currentAnalysisId>>

NextStorage == CallCreateAnalysis \/ CallUpdateAnalysis
SpecStorage == InitStorage /\ [][NextStorage]_vars

\* =================================================================== claims
\* What the claims speak of, stated without the engine's own helpers.
MissingCell(c) == c \in {Null, Undefined, Str(<<>>)}
ParsesAsNumber(c) ==
    /\ c.t = "string"
    /\ \/ Len(c.s) >= 1 /\ IsDigit(c.s[1])
       \/ Len(c.s) >= 2 /\ c.s[1] \in {"-", "+"} /\ IsDigit(c.s[2])
\* the rows in which column i (1-based) holds a cell that is not missing
NonMissingRows(i) ==
    {r \in 1..Len(data) : Len(data[r]) >= i /\ ~MissingCell(data[r][i])}
ParsingRows(i) == {r \in NonMissingRows(i) : ParsesAsNumber(data[r][i])}

AnalyzeReturned == pc = "done" /\ result.status = "returned"
AnalyzeThrew == pc = "done" /\ result.status = "threw"
DetectReturned == pc = "done" /\ args.fn = "detectVariables"
NumericalOf(variables) == SelectSeq(variables, LAMBDA v : v.type = "numerical")

\* ----------------------------------------------------------------------- C1
\* C1: analyzeData fails (throws, returns no result) whenever its input is
\* malformed: a row whose length differs from the number of headers, no row,
\* or no header.
MalformedInput ==
    \/ \E r \in 1..Len(data) : Len(data[r]) # Len(headers)
    \/ Len(data) = 0
    \/ Len(headers) = 0

C1_MalformedInputFails == (pc = "done" /\ MalformedInput) => result.status = "threw"

\* ----------------------------------------------------------------------- C2
NumericFieldsDefined(v) ==
    /\ ~IsNaN(v.dataOverview.missingValuesPercentage)
    /\ \A i \in 1..Len(v.descriptiveStatistics) :
          LET s == v.descriptiveStatistics[i] IN
          s.type = "numerical" =>
              /\ ~IsNaN(s.mean) /\ ~IsNaN(s.variance) /\ ~SIsNaN(s.standardDeviation)
              /\ ~IsNaN(s.min) /\ ~IsNaN(s.max)
    /\ \A c \in 1..Len(v.correlationAnalysis) :
          LET corr == v.correlationAnalysis[c] IN
          \A i, j \in 1..Len(corr.variables) :
              ~SIsNaN(corr.correlationMatrix[i][j]) /\ ~PIsNaN(corr.pValues[i][j])
    /\ \A i \in 1..Len(v.hypothesisTests) :
          LET t == v.hypothesisTests[i] IN
          IF "degreesOfFreedom" \in DOMAIN t
          THEN ~SIsNaN(t.statistic) /\ ~PIsNaN(t.pValue)
          ELSE ~IsNaN(t.statistic) /\ ~IsNaN(t.pValue)
    /\ \A i \in 1..Len(v.advancedTests.normalityTests) :
          LET t == v.advancedTests.normalityTests[i] IN
          ~IsNaN(t.shapiroWilk) /\ ~IsNaN(t.jarqueBera) /\ ~IsNaN(t.pValue)

\* C2: no result that analyzeData returns holds a NaN numeric field: where a
\* statistic would divide by zero the call fails or stores a defined number.
C2_NoNaNInResult == AnalyzeReturned => NumericFieldsDefined(result.value)

\* ----------------------------------------------------------------------- C3
\* C3: a column is numerical exactly when the non-missing cells that parse
\* as numbers are strictly more than 80% of its non-missing cells; at exactly
\* 80%, and with no non-missing cell, it is categorical.
C3_NumericalIffAbove80Percent ==
    DetectReturned =>
        \A i \in 1..Len(headers) :
            /\ ret.value[i].type \in {"numerical", "categorical"}
            /\ ret.value[i].type = "numerical"
                  <=> 5 * Cardinality(ParsingRows(i)) > 4 * Cardinality(NonMissingRows(i))

\* a column with exactly 4 of 5 non-missing cells parsing, classified categorical
C3_Witness ==
    /\ DetectReturned
    /\ \E i \in 1..Len(headers) :
          /\ Cardinality(NonMissingRows(i)) = 5
          /\ Cardinality(ParsingRows(i)) = 4
          /\ ret.value[i].type = "categorical"

\* ----------------------------------------------------------------------- C4
\* C4 as claimed: for every variable, missingCount = rows - len(values).
C4_MissingCountIsRowsMinusValues ==
    DetectReturned =>
        \A i \in 1..Len(headers) :
            ret.value[i].missingCount = Len(data) - Len(ret.value[i].values)

\* C4 as amended: missingCount = rows - (number of non-missing cells of the
\* column); that is rows - len(values) for every categorical variable and
\* for every numerical variable all of whose non-missing cells parse.
C4_MissingCountIsRowsMinusNonMissing ==
    DetectReturned =>
        \A i \in 1..Len(headers) :
            /\ ret.value[i].missingCount = Len(data) - Cardinality(NonMissingRows(i))
            /\ (ret.value[i].type = "categorical" \/ ParsingRows(i) = NonMissingRows(i))
                  => ret.value[i].missingCount = Len(data) - Len(ret.value[i].values)

\* a numerical variable that dropped a non-missing cell which does not parse
C4_Witness ==
    /\ DetectReturned
    /\ \E i \in 1..Len(headers) :
          /\ ret.value[i].type = "numerical"
          /\ Len(ret.value[i].values) < Cardinality(NonMissingRows(i))

\* ----------------------------------------------------------------------- C5
\* C5: a correlation result is produced iff at least two variables are
\* numerical; it then holds k-by-k matrices for the k numerical variables in
\* variable order, with r = 1 and p = 0 on the diagonal.
C5_CorrelationIffTwoNumerical ==
    AnalyzeReturned =>
        LET v == result.value
            names == [i \in 1..Len(NumericalOf(v.variables)) |-> NumericalOf(v.variables)[i].name]
            k == Cardinality({i \in 1..Len(headers) : v.variables[i].type = "numerical"})
        IN  /\ Len(v.correlationAnalysis) = (IF k >= 2 THEN 1 ELSE 0)
            /\ \A c \in 1..Len(v.correlationAnalysis) :
                  LET corr == v.correlationAnalysis[c] IN
                  /\ corr.variables = names
                  /\ Len(corr.correlationMatrix) = k /\ Len(corr.pValues) = k
                  /\ \A i \in 1..k :
                        /\ Len(corr.correlationMatrix[i]) = k
                        /\ Len(corr.pValues[i]) = k
                        /\ corr.correlationMatrix[i][i] = SOne
                        /\ corr.pValues[i][i] = PZero

\* a correlation result over two numerical variables one of which is
\* constant, in a table that also has a categorical column
C5_Witness ==
    /\ AnalyzeReturned
    /\ Len(result.value.correlationAnalysis) = 1
    /\ \E i \in 1..Len(headers) : result.value.variables[i].type = "categorical"
    /\ \E i \in 1..Len(headers) :
          /\ result.value.variables[i].type = "numerical"
          /\ result.value.descriptiveStatistics[i].variance = Zero

\* ----------------------------------------------------------------------- C6
CorrelationReturned == pc = "done" /\ args.fn = "performCorrelationAnalysis"
PearsonReturned == pc = "done" /\ args.fn = "calculatePearsonCorrelation"
PValueReturned == pc = "done" /\ args.fn = "calculateCorrelationPValue"

\* C6: the correlation matrix and the p-value matrix are symmetric, entry
\* (i, j) equal to entry (j, i), also for variables of different lengths.
C6_MatricesSymmetric ==
    CorrelationReturned =>
        \A i, j \in 1..Len(args.numericalVars) :
            /\ ret.value.correlationMatrix[i][j] = ret.value.correlationMatrix[j][i]
            /\ ret.value.pValues[i][j] = ret.value.pValues[j][i]

\* two variables of different lengths, correlated over a prefix of 3 values
C6_Witness ==
    /\ CorrelationReturned
    /\ Len(args.numericalVars[1].values) = 3
    /\ Len(args.numericalVars[2].values) = 4
    /\ ret.value.correlationMatrix[1][2] # SZero
    /\ ret.value.pValues[1][2] # POne

\* ----------------------------------------------------------------------- C7
ConstantPrefix(x, n) == \A i, j \in 1..n : x[i] = x[j]

InUnitInterval(p) == ~PIsNaN(p) /\ RGe(p[1], Zero) /\ RLe(p[2], One)

HasNormalityTest(v) == v.type = "numerical" /\ Len(v.values) > 3
HasTTest(v) == v.type = "numerical" /\ Len(v.values) > 1
EveryColumnHasAValue == \A i \in 1..Len(headers) : NonMissingRows(i) # {}

\* C9: hypothesisTests holds one normality test per numerical variable with
\* more than 3 values, then one t-test against 0 per numerical variable
\* with more than 1 value, each group in variable order, and nothing else;
\* too few values in a variable never make analyzeData fail.
C9_TestsPerVariable ==
    /\ AnalyzeReturned =>
          LET tests == result.value.hypothesisTests
              normal == SelectSeq(result.value.variables, HasNormalityTest)
              located == SelectSeq(result.value.variables, HasTTest)
          IN  /\ Len(tests) = Len(normal) + Len(located)
              /\ \A i \in 1..Len(normal) : tests[i] = ShapiroWilkTest(normal[i].values)
              /\ \A i \in 1..Len(located) :
                    tests[Len(normal) + i] = OneSampleTTest(located[i].values, Zero)
    /\ (pc = "done" /\ EveryColumnHasAValue) => result.status = "returned"

\* two numerical variables, both with the two tests, whose tests differ
C9_Witness ==
    /\ AnalyzeReturned
    /\ Len(result.value.hypothesisTests) = 4
    /\ result.value.hypothesisTests[1] # result.value.hypothesisTests[2]
    /\ result.value.hypothesisTests[3] # result.value.hypothesisTests[4]

\* ---------------------------------------------------------------------- C10
IsSignificant(t) ==
    IF "degreesOfFreedom" \in DOMAIN t THEN PLe(t.pValue, <<1, 20>>)
    ELSE RLe(t.pValue, <<1, 20>>)

\* C10: every entry of hypothesisTests, the normality tests included, carries
\* testName, interpretation and significant, with significant = (pValue <= 0.05).
C10_EveryTestCarriesContract ==
    AnalyzeReturned =>
        \A i \in 1..Len(result.value.hypothesisTests) :
            LET t == result.value.hypothesisTests[i] IN
            /\ {"testName", "interpretation", "significant"} \subseteq DOMAIN t
            /\ t.significant = IsSignificant(t)

\* ---------------------------------------------------------------------- C11
IsNormalityEntry(t) == "degreesOfFreedom" \notin DOMAIN t

\* C11: the normality-test entries of hypothesisTests have statistic exactly
\* 0, whatever the values of the variable.
C11_NormalityStatisticIsZero ==
    AnalyzeReturned =>
        \A i \in 1..Len(result.value.hypothesisTests) :
            IsNormalityEntry(result.value.hypothesisTests[i])
                => result.value.hypothesisTests[i].statistic = Zero

\* ---------------------------------------------------------------------- C12
OutliersReturned == pc = "done" /\ args.fn = "detectOutliers"

\* v.values[i] lies strictly outside [Q1 - 1.5 * IQR, Q3 + 1.5 * IQR]
OutsideFences(v, i) ==
    LET q1 == Quantile(v.values, <<1, 4>>)
        q3 == Quantile(v.values, <<3, 4>>)
        reach == RMul(<<3, 2>>, RSub(q3, q1))
    IN  RLt(v.values[i], RSub(q1, reach)) \/ RGt(v.values[i], RAdd(q3, reach))
HasOutlier(v) == v.type = "numerical" /\ \E i \in 1..Len(v.values) : OutsideFences(v, i)

\* C12: detectOutliers returns an entry exactly for the numerical variables
\* with a value strictly outside the fences; outlierIndices lists ascending
\* the positions (from 0, in the variable's own values) of those values, and
\* outlierValues[k] is the value at position outlierIndices[k].
C12_OutlierEntries ==
    OutliersReturned =>
        LET flagged == SelectSeq(args.variables, HasOutlier) IN
        /\ Len(ret.value) = Len(flagged)
        /\ \A k \in 1..Len(ret.value) :
              LET e == ret.value[k]
                  v == flagged[k]
              IN  /\ e.variable = v.name
                  /\ \A j \in 1..(Len(e.outlierIndices) - 1) :
                        e.outlierIndices[j] < e.outlierIndices[j + 1]
                  /\ {e.outlierIndices[j] : j \in 1..Len(e.outlierIndices)}
                        = {i - 1 : i \in {i \in 1..Len(v.values) : OutsideFences(v, i)}}
                  /\ Len(e.outlierValues) = Len(e.outlierIndices)
                  /\ \A j \in 1..Len(e.outlierIndices) :
                        e.outlierValues[j] = v.values[e.outlierIndices[j] + 1]

\* two variables, the first without outliers and left out, the second with
\* two outliers on either side of the fences
C12_Witness ==
    /\ OutliersReturned
    /\ Len(args.variables) = 2
    /\ args.variables[1].type = "numerical"
    /\ Len(ret.value) = 1
    /\ ret.value[1].variable = args.variables[2].name
    /\ Len(ret.value[1].outlierIndices) = 2
    /\ ret.value[1].outlierValues[1] # ret.value[1].outlierValues[2]

\* ---------------------------------------------------------------------- C13
RegressionReturned == pc = "done" /\ args.fn = "performRegressionAnalysis"

\* the pairs i < j of numerical variables that both have more than 10 values
FittedPairs(numericalVars) ==
    {p \in (1..Len(numericalVars)) \X (1..Len(numericalVars)) :
        /\ p[1] < p[2]
        /\ Len(numericalVars[p[1]].values) > 10
        /\ Len(numericalVars[p[2]].values) > 10}
LexBefore(p, q) == p[1] < q[1] \/ (p[1] = q[1] /\ p[2] < q[2])

\* C13: performRegressionAnalysis returns one fit per pair i < j of numerical
\* variables that both have more than 10 values, in lexicographic order, the
\* earlier variable as x and the later as y, and nothing else; a fit uses the
\* first min(len(x), len(y)) values only, and its residuals and predictions
\* have that length.
C13_OneFitPerPair ==
    RegressionReturned =>
        LET numericalVars == SelectSeq(args.variables, LAMBDA v : v.type = "numerical")
            pairs == FittedPairs(numericalVars)
        IN  /\ Len(ret.value) = Cardinality(pairs)
            /\ \A p \in pairs :
                  LET fit == ret.value[1 + Cardinality({q \in pairs : LexBefore(q, p)})]
                      x == numericalVars[p[1]].values
                      y == numericalVars[p[2]].values
                      n == Min2(Len(x), Len(y))
                  IN  /\ fit = PerformLinearRegression(SubSeq(x, 1, n), SubSeq(y, 1, n))
                      /\ Len(fit.residuals) = n
                      /\ Len(fit.predictions) = n
                      /\ \A i \in 1..n :
                            fit.predictions[i]
                                = RAdd(RMul(fit.coefficients[2], x[i]), fit.coefficients[1])

\* one fit, over variables of 11 and 12 values, with a variable of 10 values
\* and a categorical one left out
C13_Witness ==
    /\ RegressionReturned
    /\ Len(ret.value) = 1
    /\ Len(args.variables) = 4
    /\ \E i \in 1..4 : args.variables[i].type = "categorical"
    /\ \E i \in 1..4 : args.variables[i].type = "numerical" /\ Len(args.variables[i].values) = 10
    /\ Len(ret.value[1].residuals) = 11
    /\ ret.value[1].coefficients[2] \notin {Zero, One, NaN}

\* ---------------------------------------------------------------------- C14
TimeSeriesReturned == pc = "done" /\ args.fn = "performTimeSeriesAnalysis"

\* the name, in lower case, has "time" or "date" in it
NamesTime(name) ==
    \E i \in 1..(Len(name) - 3) :
        ToLowerCase(SubSeq(name, i, i + 3)) \in {<<"t", "i", "m", "e">>, <<"d", "a", "t", "e">>}

\* C14: the time-series result is present iff some column name contains
\* "time" or "date", whatever the case of its letters, and some other
\* variable that is numerical has 10 or more values - also when an earlier
\* numerical variable has fewer than 10.
C14_TimeSeriesIffTimeColumnAndLongNumerical ==
    TimeSeriesReturned =>
        (Len(ret.value) = 1
            <=> \E t \in 1..Len(args.variables) :
                   /\ NamesTime(args.variables[t].name)
                   /\ \E i \in 1..Len(args.variables) :
                         /\ i # t
                         /\ args.variables[i].type = "numerical"
                         /\ Len(args.variables[i].values) >= 10)

\* ---------------------------------------------------------------------- C15
ChartsReturned == pc = "done" /\ args.fn = "generateQualityControlCharts"

\* the square of v's deviation from the mean of values exceeds 9 * variance
BeyondThreeSigma(values, i) ==
    RGt(RPow(RSub(values[i], Mean(values)), 2), RMul(Int2R(9), Variance(values)))

QualityReturned == pc = "done" /\ args.fn = "assessDataQuality"

GradeRank(grade) ==
    CASE grade = "excellent" -> 3 [] grade = "good" -> 2 [] grade = "fair" -> 1 [] grade = "poor" -> 0

\* 100 - 2 * missing% - outlier% - 20 * (fraction of non-normal variables)
QualityScore(overview, outliers, tests) ==
    LET flagged == SumInts([i \in 1..Len(outliers) |-> Len(outliers[i].outlierIndices)])
        nonNormal == Cardinality({i \in 1..Len(tests) : RLt(tests[i].pValue, <<1, 20>>)})
    IN  RSub(RSub(RSub(Int2R(100), RMul(Int2R(2), overview.missingValuesPercentage)),
                  RMul(Int2R(100), RDiv(Int2R(flagged), Int2R(overview.totalObservations)))),
             RMul(Int2R(20), RDiv(Int2R(nonNormal), Int2R(Len(tests)))))
GradeOf(score) ==
    IF RGe(score, Int2R(90)) THEN "excellent"
    ELSE IF RGe(score, Int2R(70)) THEN "good"
    ELSE IF RGe(score, Int2R(50)) THEN "fair"
    ELSE "poor"

\* C16: with the outliers, the observations and the normality results held
\* fixed, a larger missing-value percentage never gives a better grade; the
\* grade is the threshold mapping (>= 90, >= 70, >= 50, else poor) of the score.
C16_GradeMonotoneInMissing ==
    QualityReturned =>
        /\ ret.value.grade
              = GradeOf(QualityScore(args.dataOverview, args.outliers,
                                     args.advancedTests.normalityTests))
        /\ RGt(args.withMoreMissing.missingValuesPercentage,
               args.dataOverview.missingValuesPercentage)
              => GradeRank(ret.value.gradeWithMoreMissing) <= GradeRank(ret.value.grade)

\* outliers and a non-normal variable present, and the grade falling from
\* good to poor as the missing values grow
C16_Witness ==
    /\ QualityReturned
    /\ args.outliers # <<>>
    /\ \E i \in 1..Len(args.advancedTests.normalityTests) :
          RLt(args.advancedTests.normalityTests[i].pValue, <<1, 20>>)
    /\ RGt(args.withMoreMissing.missingValuesPercentage,
           args.dataOverview.missingValuesPercentage)
    /\ ret.value.grade = "good"
    /\ ret.value.gradeWithMoreMissing = "poor"

\* ---------------------------------------------------------------------- C17
\* C17: analyzeData never modifies its arguments: whether it returns or
\* throws, the rows, every row, every cell and the headers are what they were
\* before the call.
C17_ArgumentsUnchanged == [][data' = data /\ headers' = headers]_vars

\* a call that returned on a table with a short row and a missing cell
C17_Witness ==
    /\ AnalyzeReturned
    /\ \E r \in 1..Len(data) : Len(data[r]) < Len(headers)
    /\ \E r \in 1..Len(data) : \E i \in 1..Len(data[r]) : data[r][i] = Null

\* ---------------------------------------------------------------------- C18
Completed(id) == id \in DOMAIN analyses /\ analyses[id].status = "completed"
Failed(id) == id \in DOMAIN analyses /\ analyses[id].status = "failed"
\* the step is one of the run of analysis id
StepOfRun(id) == id \notin DOMAIN runs \/ runs'[id] # runs[id]

\* C18: processAnalysis runs of different uploads interleave at every await
\* without affecting each other: a step changes the stored record of an
\* analysis only if it is a step of that analysis's own run, and what is
\* stored for an analysis (preview, statistical results, error message) is
\* decided by its own file alone: two analyses of the same file hold the
\* same, whatever ran before, between or after them.
C18_RunsAreIndependent ==
    /\ [](\A i \in DOMAIN analyses : \A j \in DOMAIN analyses :
            (runs[i].file = runs[j].file /\ runs[i].pc = runs[j].pc)
               => /\ analyses[i].status = analyses[j].status
                  /\ analyses[i].dataPreview = analyses[j].dataPreview
                  /\ analyses[i].errorMessage = analyses[j].errorMessage
                  /\ (Completed(i) =>
                        analyses[i].statisticalResults = analyses[j].statisticalResults))
    /\ [][\A id \in DOMAIN analyses :
            analyses'[id] # analyses[id] => StepOfRun(id)]_vars

\* two analyses of different files, the second started later and completed
\* while the first, already analysed, still waits for its interpretation
C18_Witness ==
    /\ Completed(2)
    /\ runs[2].pc = "done"
    /\ runs[1].pc = "interpreting"
    /\ analyses[1].status = "processing"
    /\ runs[1].file # runs[2].file
    /\ analyses[2].statisticalResults # runs[1].statisticalResults

\* ---------------------------------------------------------------------- C19
\* the chat completion of the run threw, or answered with a text that is
\* not JSON
ServiceFailed(id) ==
    \/ runs[id].completion.status = "threw"
    \/ /\ runs[id].completion.status = "returned"
       /\ runs[id].completion.value # Null
       /\ "json" \notin DOMAIN runs[id].completion.value
ProseFields ==
    {"executiveSummary", "statisticalSignificance", "practicalImplications",
     "limitations", "methodology"}
ListFields == {"keyFindings", "recommendations"}
AllSevenFilled(interpretation) ==
    /\ DOMAIN interpretation = ProseFields \cup ListFields
    /\ \A f \in ProseFields : interpretation[f].text # ""
    /\ \A f \in ListFields : Len(interpretation[f]) > 0

\* C19: when the interpretation service throws or answers with content that
\* cannot be parsed, interpretStatisticalResults raises nothing: the analysis
\* is completed, not failed, with no error message, and its stored
\* interpretation has all seven fields filled, the same fixed text whatever
\* the file and the failure.
C19_FallbackInterpretation ==
    \A id \in DOMAIN runs :
       ServiceFailed(id) =>
          /\ analyses[id].status = "completed"
          /\ analyses[id].errorMessage = Null
          /\ AllSevenFilled(analyses[id].aiInterpretation.json)
          /\ \A other \in DOMAIN runs :
                ServiceFailed(other)
                   => analyses[other].aiInterpretation = analyses[id].aiInterpretation

\* one analysis whose service call threw and one whose service answered
\* with a text that is not JSON, on different files, both completed
C19_Witness ==
    /\ DOMAIN runs = {1, 2}
    /\ runs[1].completion.status = "threw"
    /\ runs[2].completion.status = "returned"
    /\ ServiceFailed(2)
    /\ runs[1].file # runs[2].file
    /\ Completed(1)
    /\ Completed(2)

\* ---------------------------------------------------------------------- C20
ReportReturned == pc = "done" /\ args.fn = "generateReport" /\ ret.status = "returned"
ReportRaised == pc = "done" /\ args.fn = "generateReport" /\ ret.status = "threw"
\* the title under which each optional part is reported
TitlesOf(part) ==
    CASE part = "hypothesisTests" -> {"Statistical Tests"}
      [] part = "correlationAnalysis" -> {"Correlation Analysis"}
      [] part = "regressionAnalysis" -> {"Regression Analysis"}
      [] part = "qualityControlCharts" -> {"Quality Control Charts", "QUALITY CONTROL CHARTS"}
      [] part = "timeSeriesAnalysis" -> {"Time Series Analysis"}
Reported(part) ==
    \E i \in 1..Len(ret.value.sections) : ret.value.sections[i].title \in TitlesOf(part)

\* C20: generateReport raises nothing, as pdf and as plain text, whichever
\* optional parts of the results are absent (no correlation, no time series,
\* no regression, no control chart, no hypothesis test), and the section of
\* an absent part is not in the report.
C20_ReportWithoutOptionalParts ==
    (pc = "done" /\ args.fn = "generateReport")
       => /\ ret.status = "returned"
          /\ \A part \in OptionalParts :
                Reported(part) => Present(args.statisticalResults[part])

\* a pdf report of results in which all five optional parts are absent
C20_Witness ==
    /\ ReportReturned
    /\ args.options.format = "pdf"
    /\ \A part \in OptionalParts : ~Present(args.statisticalResults[part])
    /\ Len(args.statisticalResults.variables) > 0
    /\ \A part \in OptionalParts : ~Reported(part)

\* ---------------------------------------------------------------------- C21
\* how often the text of cell k of the column occurs in the column
OccurrencesOf(values, k) == Cardinality({j \in 1..Len(values) : values[j].s = values[k].s})
MostFrequent(values, k) ==
    \A j \in 1..Len(values) : OccurrencesOf(values, j) <= OccurrencesOf(values, k)

\* C21: the mode reported for a categorical variable is a value with the
\* highest count of its column, and among several values with that count it
\* is the one that appears first in the column.
C21_ModeIsFirstMostFrequent ==
    AnalyzeReturned =>
       \A i \in 1..Len(result.value.variables) :
          result.value.variables[i].type = "categorical" =>
             LET values == result.value.variables[i].values
                 mode == result.value.descriptiveStatistics[i].mode
             IN  \E k \in 1..Len(values) :
                    /\ values[k].s = mode
                    /\ MostFrequent(values, k)
                    /\ \A j \in 1..(k - 1) : ~MostFrequent(values, j)

\* ---------------------------------------------------------------------- C22
\* what the uploaded file makes processAnalysis meet
ParsingRaises(file) ==
    file.extension \notin SupportedExtensions \/ file.content.status = "threw"
AnalysisRaises(file) ==
    /\ ~ParsingRaises(file)
    /\ LET d == file.content.value.data
           h == file.content.value.headers
       IN  \E i \in 1..Len(h) :
              \A r \in 1..Len(d) : Len(d[r]) < i \/ MissingCell(d[r][i])
RaisedMessage(file) ==
    IF file.extension \notin SupportedExtensions
    THEN "Failed to parse file: Unsupported file format: " \o file.extension
    ELSE IF file.content.status = "threw"
    THEN "Failed to parse file: " \o file.content.error
    ELSE "Reduce of empty array with no initial value"

\* C22: when parsing the file or analyzeData raises, the record never
\* becomes completed and ends failed with the message of the error raised
\* and with no statistical results and no interpretation; no failed record
\* holds results or an interpretation, no completed record holds an error
\* message.
C22_FailureIsWhole ==
    \A id \in DOMAIN runs :
       /\ (ParsingRaises(runs[id].file) \/ AnalysisRaises(runs[id].file))
             => /\ analyses[id].status # "completed"
                /\ runs[id].pc = "done"
                      => /\ analyses[id].status = "failed"
                         /\ analyses[id].errorMessage = Text(RaisedMessage(runs[id].file))
       /\ Failed(id) => /\ analyses[id].statisticalResults = Null
                        /\ analyses[id].aiInterpretation = Null
                        /\ analyses[id].errorMessage # Null
       /\ Completed(id) => analyses[id].errorMessage = Null

\* one analysis failed in parsing (no preview stored) and one failed in
\* analyzeData (its preview stored)
C22_Witness ==
    /\ DOMAIN runs = {1, 2}
    /\ ParsingRaises(runs[1].file)
    /\ AnalysisRaises(runs[2].file)
    /\ Failed(1)
    /\ Failed(2)
    /\ analyses[1].dataPreview = Null
    /\ analyses[2].dataPreview # Null

\* an answer of the route was sent by the step just taken
Answered(route) == "route" \in DOMAIN ret /\ ret.route = route
Settled(id) == Completed(id) \/ Failed(id)

\* C23: every analysis created by POST /api/analyze eventually has status
\* completed or failed, whatever uploads and status requests are interleaved
\* with its run, provided parsing and the interpretation call terminate.
C23_EveryAnalysisSettles ==
    \A id \in RunIds : (id \in DOMAIN analyses) ~> Settled(id)
\* two analyses have settled, one each way, and the status request just
\* answered shows a settled record
C23_Witness ==
    /\ \E i, j \in RunIds : Completed(i) /\ Failed(j)
    /\ Answered("analysis") /\ ret.code = 200
    /\ ret.body.status \in {"completed", "failed"}

\* C24: a record is created pending, and its status only moves
\* pending -> processing -> completed or failed; a completed or failed
\* status is never changed again by any request or background step.
StatusMoves ==
    {<<"pending", "processing">>, <<"processing", "completed">>, <<"processing", "failed">>}
C24_StatusOnlyAdvances ==
    [][\A id \in RunIds :
          /\ (id \in DOMAIN analyses' /\ id \notin DOMAIN analyses)
                 => analyses'[id].status = "pending"
          /\ (id \in DOMAIN analyses)
                 => /\ id \in DOMAIN analyses'
                    /\ \/ analyses'[id].status = analyses[id].status
                       \/ <<analyses[id].status, analyses'[id].status>> \in StatusMoves]_vars
\* both terminal statuses are stored and a report request was just answered
C24_Witness ==
    /\ \E i, j \in RunIds : Completed(i) /\ Failed(j) /\ runs[i].pc = "done" /\ runs[j].pc = "done"
    /\ Answered("report")

\* C25: in every reachable state of the storage a completed record holds
\* statistical results and an interpretation, and a pending or processing
\* record holds no results, no interpretation and no error message.
NonNull(v) == v \notin {Null, Undefined}
C25_FieldsFollowStatus ==
    \A id \in DOMAIN analyses :
        /\ analyses[id].status = "completed"
               => /\ NonNull(analyses[id].statisticalResults)
                  /\ NonNull(analyses[id].aiInterpretation)
        /\ analyses[id].status \in {"pending", "processing"}
               => /\ analyses[id].statisticalResults = Null
                  /\ analyses[id].aiInterpretation = Null
                  /\ analyses[id].errorMessage = Null
\* a completed record next to one still processing whose preview is stored
C25_Witness ==
    \E i, j \in DOMAIN analyses :
        /\ Completed(i)
        /\ analyses[j].status = "processing" /\ NonNull(analyses[j].dataPreview)

\* C26: GET /api/analysis/:id/report calls the report generator and sends a
\* report only for a stored analysis that is completed and has statistical
\* results; for an unknown id or an analysis that is pending, processing or
\* failed it answers 404 without calling the generator.
C26_ReportOnlyWhenCompleted ==
    Answered("report") =>
        /\ ~Completed(ret.id) => ret.code = 404 /\ ~ret.generated
        /\ ret.generated => Completed(ret.id) /\ NonNull(analyses[ret.id].statisticalResults)
        /\ ret.code = 200 => ret.generated
\* a report was refused for an analysis still processing while another
\* analysis is completed
C26_Witness ==
    /\ Answered("report") /\ ret.code = 404
    /\ ret.id \in DOMAIN analyses /\ analyses[ret.id].status = "processing"
    /\ \E j \in DOMAIN analyses : Completed(j)

\* the storage call just made
Called(call) == "call" \in DOMAIN ret /\ ret.call = call

\* C27: after any sequence of createAnalysis and updateAnalysis calls the
\* stored ids are 1, 2, 3, ... in creation order (so pairwise distinct),
\* each record's id is the key it is stored under, createAnalysis leaves
\* every existing record as it was, and updateAnalysis on an id never
\* created returns undefined and leaves the store unchanged.
C27_IdsAndRecordsKept ==
    /\ [](/\ DOMAIN analyses = 1..(currentAnalysisId - 1)
          /\ \A k \in DOMAIN analyses : analyses[k].id = k)
    /\ [][/\ Called("createAnalysis")'
             => /\ ret'.value.id = Cardinality(DOMAIN analyses) + 1
                /\ DOMAIN analyses' = DOMAIN analyses \cup {ret'.value.id}
                /\ analyses'[ret'.value.id] = ret'.value
                /\ \A k \in DOMAIN analyses : analyses'[k] = analyses[k]
          /\ (Called("updateAnalysis")' /\ ret'.id \notin DOMAIN analyses)
             => /\ ret'.value = Undefined
                /\ analyses' = analyses]_vars
\* two records are stored, the first one updated since, and an update of
\* an id never created has just returned undefined
C27_Witness ==
    /\ DOMAIN analyses = {1, 2}
    /\ analyses[1].status = "completed"
    /\ Called("updateAnalysis") /\ ret.id = 3 /\ ret.value = Undefined

\* the names of the variables the charts were computed from: the first
\* three numerical variables, in order
ChartedNames(results) ==
    LET numericalVars == SelectSeq(results.variables, IsNumerical)
    IN  [i \in 1..Min2(3, Len(numericalVars)) |-> numericalVars[i].name]

\* C28: in the generated report, pdf and plain text, each quality-control
\* chart is headed by the name of the numerical variable it was computed
\* from, also when a categorical column precedes a numerical one.
C28_ChartsNamedAfterTheirVariable ==
    ReportReturned =>
        \A i \in 1..Len(ret.value.sections) :
            "labels" \in DOMAIN ret.value.sections[i]
                => ret.value.sections[i].labels = ChartedNames(args.statisticalResults)

\* C29: detectTrend never reports decreasing for a series whose second
\* half has the greater mean, and never increasing for one whose second
\* half has the smaller mean, for negative values as for positive ones.
C29_TrendFollowsTheMeans ==
    (pc = "done" /\ args.fn = "detectTrend") =>
        LET half == Len(args.values) \div 2
            firstMean == Mean(SubSeq(args.values, 1, half))
            secondMean == Mean(SubSeq(args.values, half + 1, Len(args.values)))
        IN  /\ RGt(secondMean, firstMean) => ret.value # "decreasing"
            /\ RLt(secondMean, firstMean) => ret.value # "increasing"

\* C30: for a table (of at least one row and one column) with no missing
\* cell, no outlier and no numerical variable failing the normality check,
\* analyzeData grades the data excellent; so it does for a complete table
\* of categorical variables only.
C30_CleanTableIsExcellent ==
    AnalyzeReturned =>
        LET results == result.value
            clean ==
              /\ Len(data) >= 1 /\ Len(results.variables) >= 1
              /\ \A i \in 1..Len(results.variables) : results.variables[i].missingCount = 0
              /\ \A i \in 1..Len(results.outliers) : results.outliers[i].outlierIndices = <<>>
              /\ \A i \in 1..Len(results.advancedTests.normalityTests) :
                    ~RLt(results.advancedTests.normalityTests[i].pValue, <<1, 20>>)
        IN  clean => results.dataOverview.dataQuality = "excellent"
====
